---- MODULE Spec2Model ----
(***************************************************************************)
(* The buildDataset data collection pipeline of rag-eval                   *)
(* (src/app/build_dataset): the LangGraph state of graph.py, its six nodes *)
(* and the conditional edge, the ranker and the converter of               *)
(* processors.py and the persister of storage.py.                          *)
(*                                                                         *)
(* Python values are modelled as follows.                                  *)
(*   - a str is the sequence of its characters, "" is << >>;               *)
(*   - Optional[T] is a sequence of length at most one: None is << >>,     *)
(*     a present value x is <<x>>;                                         *)
(*   - a list is a sequence; a pydantic model instance is a record;        *)
(*   - ProcessedContent instances are mutated in place by the persister    *)
(*     while two lists refer to them, so they live in a heap and the lists *)
(*     hold their ids.                                                     *)
(* Log and error message texts are represented by a tag naming the         *)
(* statement that formats them.                                            *)
(***************************************************************************)
EXTENDS Integers, Sequences, FiniteSets, TLC

(***************************************************************************)
(* Bounds of the model.                                                    *)
(***************************************************************************)
\* longest research_topics list of a run
MaxTopics == 2
\* most raw hits the search collaborator returns for one topic
MaxHits == 2
\* longest selection handed directly to node_fetch_full_content (NodeInit)
MaxSel == 2
\* longest list of hits a search returns when the hits have every form of
\* cited_by; lists of hits with every form of link are longer by one
\* (SearchInit)
MaxVaried == 2

(***************************************************************************)
(* Optional values and Python truthiness.                                  *)
(***************************************************************************)
None == << >>
Some(x) == <<x>>
IsNone(o) == Len(o) = 0
Val(o) == o[1]
\* `if x:` for an Optional[str] or an Optional[list]: neither None nor empty
Truthy(o) == Len(o) = 1 /\ Len(o[1]) > 0
\* `if x:` for an Optional object that is truthy whenever it is present
Present(o) == Len(o) = 1

(***************************************************************************)
(* str methods on character sequences.                                     *)
(***************************************************************************)
LowerChar(c) ==
    CASE c = "A" -> "a" [] c = "B" -> "b" [] c = "D" -> "d" [] c = "F" -> "f"
      [] c = "H" -> "h" [] c = "P" -> "p" [] c = "T" -> "t" [] c = "X" -> "x"
      [] OTHER -> c

lower(s) == [i \in 1..Len(s) |-> LowerChar(s[i])]

endswith(s, suffix) ==
    /\ Len(s) >= Len(suffix)
    /\ SubSeq(s, Len(s) - Len(suffix) + 1, Len(s)) = suffix

startswith(s, prefix) ==
    /\ Len(s) >= Len(prefix)
    /\ SubSeq(s, 1, Len(prefix)) = prefix

\* `sub in s`
contains(s, sub) ==
    \E i \in 1..(Len(s) - Len(sub) + 1) : SubSeq(s, i, i + Len(sub) - 1) = sub

\* str.replace(' ', '_')
replace_space(s) == [i \in 1..Len(s) |-> IF s[i] = " " THEN "_" ELSE s[i]]

DigitChars == <<"0", "1", "2", "3", "4", "5", "6", "7", "8", "9">>

IsDigitChar(c) == \E d \in 1..10 : DigitChars[d] = c

DigitValue(c) == (CHOOSE d \in 1..10 : DigitChars[d] = c) - 1

\* str.isdigit(): non-empty and all characters are digits
isdigit(s) == Len(s) > 0 /\ \A i \in 1..Len(s) : IsDigitChar(s[i])

RECURSIVE int_of_digits(_)
\* int(s) for a string of digits
int_of_digits(s) ==
    IF Len(s) = 0 THEN 0
    ELSE 10 * int_of_digits(SubSeq(s, 1, Len(s) - 1)) + DigitValue(s[Len(s)])

(***************************************************************************)
(* pydantic HttpUrl: validation and the normalised string str(url) gives.  *)
(***************************************************************************)
SchemeHttp == <<"h", "t", "t", "p", ":", "/", "/">>
SchemeHttps == <<"h", "t", "t", "p", "s", ":", "/", "/">>

SchemeLen(s) ==
    IF startswith(lower(s), SchemeHttps) THEN Len(SchemeHttps)
    ELSE IF startswith(lower(s), SchemeHttp) THEN Len(SchemeHttp)
    ELSE 0

\* a scheme of http or https followed by a non-empty host
HttpUrlValid(s) ==
    /\ SchemeLen(s) > 0
    /\ Len(s) > SchemeLen(s)
    /\ s[SchemeLen(s) + 1] # "/"

\* index of the first "/" after the host, Len(s) + 1 when the url has no path
HostEnd(s) ==
    LET after == {i \in (SchemeLen(s) + 1)..Len(s) : s[i] = "/"}
    IN  IF after = {} THEN Len(s) + 1
        ELSE CHOOSE i \in after : \A j \in after : i <= j

\* scheme and host are lower-cased, an empty path becomes "/"
HttpUrl(s) ==
    lower(SubSeq(s, 1, HostEnd(s) - 1))
      \o (IF HostEnd(s) > Len(s) THEN <<"/">> ELSE SubSeq(s, HostEnd(s), Len(s)))

\* Path(url).name: what follows the last "/"
PathName(s) ==
    LET slashes == {i \in 1..Len(s) : s[i] = "/"}
        last == IF slashes = {} THEN 0
                ELSE CHOOSE i \in slashes : \A j \in slashes : j <= i
    IN  SubSeq(s, last + 1, Len(s))

DotPdf == <<".", "p", "d", "f">>

(***************************************************************************)
(* schemas.py: the three pydantic models.                                  *)
(***************************************************************************)
\* the fields InitialSearchResult declares
InitialSearchResultFields ==
    {"title", "link", "snippet", "source_name", "publication_date_str",
     "citation_count", "raw_serpapi_data", "quality_score"}

\* InitialSearchResult(**kw): pydantic keeps the declared fields, gives the
\* absent ones their default None, validates and normalises link, and ignores
\* every keyword that is no declared field (extra = "ignore", the default).
\* The caller has checked HttpUrlValid(kw.link).
InitialSearchResult(kw) ==
    [f \in InitialSearchResultFields |->
        IF f = "link" THEN HttpUrl(kw.link)
        ELSE IF f \in DOMAIN kw THEN kw[f]
        ELSE None]

\* FullContentData(...)
FullContentData(source_url, original_metadata, file_path, raw_content, content_type, download_successful, error_message) ==
    [source_url |-> source_url, original_metadata |-> original_metadata,
     file_path |-> file_path, raw_content |-> raw_content,
     content_type |-> content_type,
     download_successful |-> download_successful,
     error_message |-> error_message]

\* ProcessedContent(...): gcs_storage_link keeps its default None
ProcessedContent(source_url, original_metadata, title, authors, publication_date, abstract, keywords, full_text_markdown) ==
    [source_url |-> source_url, original_metadata |-> original_metadata,
     title |-> title, authors |-> authors,
     publication_date |-> publication_date, abstract |-> abstract,
     keywords |-> keywords, full_text_markdown |-> full_text_markdown,
     gcs_storage_link |-> None]

(***************************************************************************)
(* The inputs of a run: topics, and what the collaborators may answer.     *)
(***************************************************************************)
TopicA == <<"A">>
TopicB == <<"B">>
\* the empty string as a topic
TopicEmpty == << >>
Topics == {TopicA, TopicB, TopicEmpty}

RECURSIVE SeqsUpTo(_, _)
\* the sequences over S of length at most n
SeqsUpTo(S, n) ==
    IF n = 0 THEN {<< >>}
    ELSE LET shorter == SeqsUpTo(S, n - 1)
         IN  shorter \cup {Append(s, x) : s \in {t \in shorter : Len(t) = n - 1}, x \in S}

TopicLists == SeqsUpTo(Topics, MaxTopics)

UrlPdf == <<"h", "t", "t", "p", ":", "/", "/", "x", "/", "a", ".", "p", "d", "f">>
UrlHtml == <<"h", "t", "t", "p", ":", "/", "/", "x", "/", "b">>
\* a url whose path ends in an upper-case .PDF
UrlPdfUpper == <<"h", "t", "t", "p", ":", "/", "/", "x", "/", "A", ".", "P", "D", "F">>

\* a raw hit of the search provider: a dict, a key it lacks reads as None.
\* cited_by is tagged by what the node's isinstance tests see.
RawHit(link, title, snippet, source, publication_date, cited_by) ==
    [link |-> link, title |-> title, snippet |-> snippet, source |-> source,
     publication_date |-> publication_date, cited_by |-> cited_by]

CitedByInt(n) == [kind |-> "int", value |-> n]
CitedByStr(s) == [kind |-> "str", value |-> s]
\* no cited_by key, or a dict without a value, or a null value
CitedByMissing == [kind |-> "missing"]
\* cited_by is no dict, or its value is of another type
CitedByOther == [kind |-> "other"]
\* cited_by is a dict without the key value
CitedByNoValue == [kind |-> "novalue"]
\* cited_by is a dict whose value is None
CitedByNull == [kind |-> "null"]

HitPdf ==
    RawHit(Some(UrlPdf), Some(<<"A", " ", "x">>), Some(<<"a">>),
           Some(<<"a", "r", "x", "i", "v">>), Some(<<"2", "0", "2", "4">>),
           CitedByInt(5))
HitHtml ==
    RawHit(Some(UrlHtml), Some(<<"b">>), None, None, None, CitedByMissing)
HitPdfUpper ==
    RawHit(Some(UrlPdfUpper), Some(<<"A">>), None, None, None, CitedByInt(0))
\* a hit without a link
HitNoLink ==
    RawHit(None, Some(<<"c">>), None, None, None, CitedByStr(<<"1", "0">>))

RawHits == {HitPdf, HitHtml, HitNoLink}

\* a hit with a link and the given cited_by
HitCited(cited_by) == RawHit(Some(UrlHtml), Some(<<"b">>), None, None, None, cited_by)
\* a hit whose link is no url
HitBadLink == RawHit(Some(<<"x">>), Some(<<"d">>), None, None, None, CitedByInt(5))

\* the forms of cited_by the node tells apart
CitedByForms ==
    {CitedByInt(0), CitedByInt(1234), CitedByStr(<<"5", "6">>),
     CitedByStr(<<"a", "b", "c">>), CitedByMissing, CitedByNoValue, CitedByNull}

VariedHits == {HitCited(c) : c \in CitedByForms} \cup {HitBadLink, HitNoLink}

\* the forms of link the node tells apart
LinkForms == {HitPdf, HitCited(CitedByInt(1234)), HitBadLink, HitNoLink}

\* what the external collaborators do during a run: "any" lets every call
\* succeed, return nothing or raise; in "happy" every topic's search returns
\* one hit with a .pdf link and one with another link, and every download,
\* extract, convert and upload call succeeds.
Worlds == {"any", "happy"}

\* search(query, num_results): a list of raw hits, or an exception
\* cause: what made the call end as it did
SearchRaises == [raised |-> TRUE, hits |-> << >>, cause |-> "raise"]
SearchReturns(hits) == [raised |-> FALSE, hits |-> hits, cause |-> "returned"]

\* tools.py: what search_academic_papers_serpapi finds when it is called: an
\* API key or none, the client library or none, and the answer of the
\* provider: an exception of the client, or a dict with or without
\* organic_results and with or without an error message
SearchAnswers ==
    {[kind |-> "raises", organic_results |-> << >>, error |-> FALSE]}
      \cup {[kind |-> "dict", organic_results |-> h, error |-> e] :
               h \in SeqsUpTo(RawHits, MaxHits), e \in BOOLEAN}

SearchEnvironments ==
    {[api_key |-> k, client_installed |-> c, answer |-> a] :
        k \in BOOLEAN, c \in BOOLEAN, a \in SearchAnswers}

\* a function without its last except clause
search_academic_papers_serpapi_mut(env) ==
    IF ~env.api_key
    THEN [raised |-> FALSE, hits |-> << >>, cause |-> "no_api_key"]
    ELSE IF ~env.client_installed
    THEN [raised |-> FALSE, hits |-> << >>, cause |-> "import_error"]
    ELSE IF env.answer.kind = "raises"
    THEN [raised |-> TRUE, hits |-> << >>, cause |-> "raise"]
    ELSE IF Len(env.answer.organic_results) = 0
    THEN [raised |-> FALSE, hits |-> << >>,
          cause |-> IF env.answer.error THEN "provider_error" ELSE "no_organic_results"]
    ELSE [raised |-> FALSE, hits |-> env.answer.organic_results, cause |-> "returned"]

\* tools.py lines 17-65, search_academic_papers_serpapi(query, num_results):
\* line 32 returns [] without a key; the import of line 37 and the calls of
\* lines 46-47 are inside try, and the except clauses of lines 60-65 return
\* []; lines 49-55 return [] when the answer has no organic results
search_academic_papers_serpapi(env) ==
    IF ~env.api_key
    THEN [raised |-> FALSE, hits |-> << >>, cause |-> "no_api_key"]
    ELSE IF ~env.client_installed
    THEN [raised |-> FALSE, hits |-> << >>, cause |-> "import_error"]
    ELSE IF env.answer.kind = "raises"
    THEN [raised |-> FALSE, hits |-> << >>, cause |-> "exception"]
    ELSE IF Len(env.answer.organic_results) = 0
    THEN [raised |-> FALSE, hits |-> << >>,
          cause |-> IF env.answer.error THEN "provider_error" ELSE "no_organic_results"]
    ELSE [raised |-> FALSE, hits |-> env.answer.organic_results, cause |-> "returned"]

\* in the world "shipped" the search collaborator is the function of tools.py
SearchOutcomes(w) ==
    IF w = "shipped"
    THEN {search_academic_papers_serpapi(env) : env \in SearchEnvironments}
    ELSE IF w = "happy"
    THEN {SearchReturns(<<HitPdf, HitHtml>>), SearchReturns(<<HitHtml, HitPdf>>)}
    ELSE IF w = "varied"
    THEN {SearchReturns(h) : h \in SeqsUpTo(VariedHits, MaxVaried)
                                    \cup SeqsUpTo(LinkForms, MaxVaried + 1)}
    ELSE {SearchRaises} \cup {SearchReturns(h) : h \in SeqsUpTo(RawHits, MaxHits)}

\* download(url, dir) and extract(url): a result, nothing (None, an empty
\* text, a path that does not exist), or an exception
FetchOutcomes(w) == IF w = "happy" THEN {"ok"} ELSE {"ok", "nothing", "raise"}

\* Markitdown().convert(x): a result with text, a result whose text_content
\* is empty, a falsy result, or an exception
ConvertOutcomes(w) ==
    IF w = "happy" THEN {"text"} ELSE {"text", "emptytext", "falsy", "raise"}

\* upload_raw_artifact(bucket, file, blob): the public URL, None, or, when
\* replaced by another uploader, an exception
UploadOutcomes(w) == IF w = "happy" THEN {"ok"} ELSE {"ok", "nothing", "raise"}

\* the text the page-extraction endpoint returns
HtmlText == <<"<", "p", ">">>
\* the text_content of a conversion result
MarkdownText == <<"#">>

(***************************************************************************)
(* processors.py: the ranker.  Scores are floats in the code; the model    *)
(* keeps every component in ten-thousandths and the weighted total in      *)
(* hundred-thousandths, as exact integers.                                 *)
(***************************************************************************)
\* getattr(obj, name) on a pydantic instance succeeds for the attributes the
\* instance carries and raises AttributeError for any other name
HasAttr(obj, name) == name \in DOMAIN obj

\* the characters other than letters, digits and "_" used in the model: the
\* places where the regular expression's \b matches next to a digit
NonWordChars == {" ", "-", "/", ".", ":", ",", "<", ">", "#"}

\* re.search(r'\b(\d{4})\b', s): the start of the first run of exactly four
\* digits with a word boundary on both sides, 0 when there is none
YearMatch(s) ==
    LET starts == {i \in 1..(Len(s) - 3) :
                     /\ \A k \in 0..3 : IsDigitChar(s[i + k])
                     /\ (i = 1 \/ s[i - 1] \in NonWordChars)
                     /\ (i + 3 = Len(s) \/ s[i + 4] \in NonWordChars)}
    IN  IF starts = {} THEN 0
        ELSE CHOOSE i \in starts : \A j \in starts : i <= j

Max(a, b) == IF a >= b THEN a ELSE b
Min(a, b) == IF a <= b THEN a ELSE b

\* lines 38-52: 0.5 for the topic in the title, 0.5 for the topic in the snippet
relevance_score(result) ==
    LET meta == result.original_metadata
        topic == IF Present(meta) /\ "research_topic" \in DOMAIN Val(meta)
                 THEN lower(Val(meta).research_topic)
                 ELSE << >>
    IN  IF Len(topic) > 0
        THEN Min((IF Truthy(result.title) /\ contains(lower(Val(result.title)), topic)
                  THEN 5000 ELSE 0)
                 + (IF Truthy(result.snippet) /\ contains(lower(Val(result.snippet)), topic)
                    THEN 5000 ELSE 0),
                 10000)
        ELSE 0

\* lines 55-72: 1 - age/10, clamped to [0, 1]; 0.1 for a date without a year
recency_score(result, current_year) ==
    IF Truthy(result.publication_date_str)
    THEN LET s == Val(result.publication_date_str)
             at == YearMatch(s)
         IN  IF at > 0
             THEN LET year == int_of_digits(SubSeq(s, at, at + 3))
                      age == Max(0, current_year - year)
                  IN  Max(0, 10000 - age * 1000)
             ELSE 1000
    ELSE 0

SourceArxiv == <<"a", "r", "x", "i", "v">>
SourceAcm == <<"a", "c", "m">>
SourceIeee == <<"i", "e", "e", "e">>
SourceResearchgate == <<"r", "e", "s", "e", "a", "r", "c", "h", "g", "a", "t", "e">>
SourceAcademia == <<"a", "c", "a", "d", "e", "m", "i", "a", ".", "e", "d", "u">>

\* lines 74-83
source_authority_score(result) ==
    IF Truthy(result.source_name)
    THEN LET n == lower(Val(result.source_name))
         IN  IF contains(n, SourceArxiv) \/ contains(n, SourceAcm) \/ contains(n, SourceIeee)
             THEN 10000
             ELSE IF contains(n, SourceResearchgate) \/ contains(n, SourceAcademia)
             THEN 7000
             ELSE 3000
    ELSE 0

\* math.log10(count + 1) / math.log10(1001) in ten-thousandths, rounded down,
\* tabulated for the counts the model's hits carry; 1 above 1000 citations
LogRatio(count) ==
    CASE count = 1 -> 1003 [] count = 5 -> 2593 [] count = 10 -> 3470
      [] count = 56 -> 5852 [] count = 99 -> 6665 [] count = 100 -> 6680 [] count = 999 -> 9998
      [] count >= 1000 -> 10000

\* lines 85-95: a negative count takes the last branch, like an unknown one
citation_score(result) ==
    IF Present(result.citation_count) /\ Val(result.citation_count) > 0
    THEN Min(10000, LogRatio(Val(result.citation_count)))
    ELSE IF Present(result.citation_count) /\ Val(result.citation_count) = 0
    THEN 0
    ELSE 1000

Raised == [raised |-> TRUE]
Returned(v) == [raised |-> FALSE, value |-> v]

\* calculate_weighted_quality_score(result): line 42 reads
\* result.original_metadata, which raises AttributeError on an instance that
\* carries no such attribute
calculate_weighted_quality_score(result, current_year) ==
    IF ~HasAttr(result, "original_metadata")
    THEN Raised
    ELSE Returned(4 * relevance_score(result)
                  + 2 * recency_score(result, current_year)
                  + 1 * source_authority_score(result)
                  + 3 * citation_score(result))

\* sorted(xs, key = ..., reverse = True): descending and stable
SortedByScoreDesc(xs) ==
    LET key(i) == IF Present(xs[i].quality_score) THEN Val(xs[i].quality_score) ELSE -1
        pos(i) == Cardinality({j \in 1..Len(xs) : key(j) > key(i)})
                  + Cardinality({j \in 1..(i - 1) : key(j) = key(i)}) + 1
    IN  [p \in 1..Len(xs) |-> xs[CHOOSE i \in 1..Len(xs) : pos(i) = p]]

\* xs[:n]
Take(xs, n) == SubSeq(xs, 1, Min(Max(n, 0), Len(xs)))

\* rank_initial_results(results, top_n): the scoring loop assigns
\* quality_score to the candidates one by one and stops at the first one whose
\* scoring raises.  results: the list as the loop leaves it; scorings: the
\* positions of the candidates the loop handed to the scoring function.
rank_initial_results(results, top_n, current_year) ==
    IF Len(results) = 0
    THEN [raised |-> FALSE, value |-> << >>, results |-> results, scorings |-> << >>]
    ELSE
    LET score(i) == calculate_weighted_quality_score(results[i], current_year)
        bad == {i \in 1..Len(results) : score(i).raised}
        stop == IF bad = {} THEN Len(results) + 1
                ELSE CHOOSE i \in bad : \A j \in bad : i <= j
        scored == [i \in 1..Len(results) |->
                     IF i < stop
                     THEN [results[i] EXCEPT !.quality_score = Some(score(i).value)]
                     ELSE results[i]]
        \* lines 128-131: one call per pass of the loop, the raising one included
        called == [i \in 1..Min(stop, Len(results)) |-> i]
    IN  IF bad # {}
        THEN [raised |-> TRUE, value |-> << >>, results |-> scored, scorings |-> called]
        ELSE [raised |-> FALSE,
              value |-> Take(SortedByScoreDesc(scored), top_n),
              results |-> scored, scorings |-> called]

\* the years datetime.now().year gives during a run
ClockYears == {2025}

(***************************************************************************)
(* graph.py: the state of a run.                                           *)
(***************************************************************************)
VARIABLES
    \* GraphState
    research_topics, current_topic_index, current_topic,
    initial_search_results, ranked_initial_results,
    top_n_selected_for_full_fetch, fetched_full_content,
    processed_structured_data,
    all_processed_data, all_gcs_links, aggregated_errors,
    \* the ProcessedContent instances, by id
    heap,
    \* the node the graph runs next, "should_continue" while the conditional
    \* edge is to be evaluated, "END" when the run is over
    pc,
    \* how the collaborators behave in this run
    world,
    \* the scratch directories that exist on disk
    dirs,
    \* the files that exist in the scratch directories
    files,
    \* raw_results of node_fetch_initial_results: what the latest search call
    \* returned
    raw_results,
    \* a call of one of the module functions made directly, as the tests make
    \* it: None, or the function, its argument and what it returned
    direct,
    \* node_fetch_full_content run statement by statement: None, or the locals
    \* of its coroutine
    flow,
    \* history: the candidates, by position, that the latest call of
    \* rank_initial_results handed to calculate_weighted_quality_score, in the
    \* order of the calls
    scorings,
    \* history: the nodes executed so far, in order
    trace,
    \* history: the collaborator calls of the current topic's iteration
    calls,
    \* history: the lengths of the accumulators when the current iteration began
    mark

vars ==
    <<research_topics, current_topic_index, current_topic,
      initial_search_results, ranked_initial_results,
      top_n_selected_for_full_fetch, fetched_full_content,
      processed_structured_data, all_processed_data, all_gcs_links,
      aggregated_errors, heap, pc, world, dirs, files, raw_results, direct, flow,
      scorings, trace,
      calls, mark>>

\* the fields of a topic's iteration
transients ==
    <<initial_search_results, ranked_initial_results,
      top_n_selected_for_full_fetch, fetched_full_content,
      processed_structured_data>>

accumulators == <<all_processed_data, all_gcs_links, aggregated_errors>>

iteration == <<research_topics, current_topic_index, current_topic>>

Call(fn, arg, out) == [fn |-> fn, arg |-> arg, out |-> out]

Lengths == [docs |-> Len(all_processed_data), links |-> Len(all_gcs_links),
            errors |-> Len(aggregated_errors)]

\* run_build_dataset_pipeline: the initial GraphState, handed to the graph's
\* entry point
Init ==
    /\ research_topics \in TopicLists
    /\ current_topic_index = -1
    /\ current_topic = None
    /\ initial_search_results = None
    /\ ranked_initial_results = None
    /\ top_n_selected_for_full_fetch = None
    /\ fetched_full_content = None
    /\ processed_structured_data = None
    /\ all_processed_data = << >>
    /\ all_gcs_links = << >>
    /\ aggregated_errors = << >>
    /\ heap = << >>
    /\ pc = "prepare_next_topic"
    /\ world \in Worlds
    /\ dirs = {}
    /\ files = {}
    /\ raw_results = << >>
    /\ direct = None
    /\ flow = None
    /\ scorings = << >>
    /\ trace = << >>
    /\ calls = << >>
    /\ mark = [docs |-> 0, links |-> 0, errors |-> 0]

(***************************************************************************)
(* graph.py: the edges.                                                    *)
(***************************************************************************)
\* a wiring that leaves node_fetch_full_content out
EdgeFrom_mut(node) ==
    CASE node = "prepare_next_topic" -> "fetch_initial"
      [] node = "fetch_initial" -> "rank_initial"
      [] node = "rank_initial" -> "process_full"
      [] node = "fetch_full" -> "process_full"
      [] node = "process_full" -> "store_results"
      [] node = "store_results" -> "should_continue"

\* workflow.add_edge(a, b): the node that follows a
EdgeFrom(node) ==
    CASE node = "prepare_next_topic" -> "fetch_initial"
      [] node = "fetch_initial" -> "rank_initial"
      [] node = "rank_initial" -> "fetch_full"
      [] node = "fetch_full" -> "process_full"
      [] node = "process_full" -> "store_results"
      \* the conditional edge is evaluated after store_results
      [] node = "store_results" -> "should_continue"

\* a guard that is off by one
should_continue_mut(index, topics) ==
    IF index < Len(topics) THEN "continue" ELSE "end"

\* should_continue(state)
should_continue(index, topics) ==
    IF index + 1 < Len(topics) THEN "continue" ELSE "end"

\* the mapping of add_conditional_edges
ConditionalTarget(answer) ==
    IF answer = "continue" THEN "prepare_next_topic" ELSE "END"

\* a node has run: the graph moves along its edge, unless an exception left
\* the node, which ends the run without a final state
Ran(node, escaped) ==
    /\ pc = node
    /\ pc' = IF escaped THEN "ABORTED" ELSE EdgeFrom(node)
    /\ trace' = Append(trace, node)

\* a node that returns the topic's items in place of the accumulator
extend_mut(list, xs) == xs

\* list.extend(xs), on the list object the state holds
extend(list, xs) == list \o xs

(***************************************************************************)
(* node_prepare_next_topic                                                 *)
(***************************************************************************)
\* a node that skips a topic
next_topic_index_mut(index) == index + 2

\* line 53: the index the node moves to
next_topic_index(index) == index + 1

\* a node that leaves the per-topic fields as they are
cleared_mut(field) == field

\* lines 63-67: the value the node gives a per-topic field, whatever it held
cleared(field) == None

node_prepare_next_topic ==
    /\ Ran("prepare_next_topic", FALSE)
    /\ LET next_index == next_topic_index(current_topic_index)
       IN  IF next_index < Len(research_topics)
           THEN /\ current_topic_index' = next_index
                /\ current_topic' = Some(research_topics[next_index + 1])
                /\ initial_search_results' = cleared(initial_search_results)
                /\ ranked_initial_results' = cleared(ranked_initial_results)
                /\ top_n_selected_for_full_fetch' = cleared(top_n_selected_for_full_fetch)
                /\ fetched_full_content' = cleared(fetched_full_content)
                /\ processed_structured_data' = cleared(processed_structured_data)
           ELSE \* return {}
                UNCHANGED <<current_topic_index, current_topic, transients>>
    /\ calls' = << >>
    /\ mark' = Lengths
    /\ UNCHANGED <<research_topics, accumulators, heap, world, raw_results, dirs, files, direct, flow, scorings>>

(***************************************************************************)
(* node_fetch_initial_results                                              *)
(***************************************************************************)
RECURSIVE IndicesOf(_)
\* the indices at which a sequence of booleans is TRUE, ascending
IndicesOf(flags) ==
    IF Len(flags) = 0 THEN << >>
    ELSE IndicesOf(SubSeq(flags, 1, Len(flags) - 1))
           \o (IF flags[Len(flags)] THEN <<Len(flags)>> ELSE << >>)

\* a test of the value's truth in place of its type
parse_citation_count_mut(cited_by) ==
    IF cited_by.kind = "int" /\ cited_by.value # 0 THEN Some(cited_by.value)
    ELSE IF cited_by.kind = "str" /\ isdigit(cited_by.value)
    THEN Some(int_of_digits(cited_by.value))
    ELSE None

\* lines 108-117: the citation count of a raw hit
parse_citation_count(cited_by) ==
    IF cited_by.kind = "int" THEN Some(cited_by.value)
    ELSE IF cited_by.kind = "str" /\ isdigit(cited_by.value)
    THEN Some(int_of_digits(cited_by.value))
    ELSE None

\* lines 119-124: the keywords the node passes to InitialSearchResult
candidate_keywords(res, topic) ==
    [link |-> Val(res.link), title |-> res.title,
     citation_count |-> parse_citation_count(res.cited_by),
     snippet |-> res.snippet, source_name |-> res.source,
     publication_date_str |-> res.publication_date,
     raw_serpapi_data |-> Some(res),
     original_metadata |-> Some([research_topic |-> topic])]

\* a loop that does not validate the link
hit_fate_mut(res) == IF ~Truthy(res.link) THEN "skipped" ELSE "candidate"

\* lines 101-128: what the loop does with one raw hit
hit_fate(res) ==
    IF ~Truthy(res.link) THEN "skipped"
    ELSE IF ~HttpUrlValid(Val(res.link)) THEN "invalid"
    ELSE "candidate"

\* a try statement around the loop in place of the one inside it: the first
\* hit that cannot be validated ends the loop
parsed_hits_mut(fate) ==
    LET invalid == {i \in 1..Len(fate) : fate[i] = "invalid"}
        stop == IF invalid = {} THEN Len(fate) + 1
                ELSE CHOOSE i \in invalid : \A j \in invalid : i <= j
    IN  IndicesOf([i \in 1..Len(fate) |-> fate[i] = "candidate" /\ i < stop])

\* lines 101-128: the hits that become candidates; try and except are inside
\* the loop body, so a hit that cannot be validated does not end the loop
parsed_hits(fate) == IndicesOf([i \in 1..Len(fate) |-> fate[i] = "candidate"])

\* a node that logs the failed call without recording it
search_call_errors_mut(raised) == << >>

\* lines 96-99: the error the node appends when the search call raises
search_call_errors(raised) == IF raised THEN <<"serpapi_call_error">> ELSE << >>

\* a call made outside try
search_exception_escapes_mut(raised) == raised

\* lines 93-99: the call is made inside try, and except Exception catches
\* whatever it raises
search_exception_escapes(raised) == FALSE

\* settings.MAX_RETRIES_PER_STEP
MAX_RETRIES_PER_STEP == 2

\* a call that is made again, as often as the setting allows, when it raises
search_attempts_mut(raised) == IF raised THEN 1 + MAX_RETRIES_PER_STEP ELSE 1

\* lines 93-99: the call statement is in no loop and the except clause does
\* not call again, so the collaborator is called once whether it raises or not
search_attempts(raised) == 1

\* a test for None alone
topic_missing_mut(topic) == ~Present(topic)

\* line 85, `if not topic`: the topic is None or the empty string
topic_missing(topic) == ~Truthy(topic)

node_fetch_initial_results ==
    /\ pc = "fetch_initial"
    /\ IF topic_missing(current_topic)
       THEN /\ Ran("fetch_initial", FALSE)
            /\ aggregated_errors' = Append(aggregated_errors, "topic_missing")
            /\ initial_search_results' = Some(<< >>)
            /\ raw_results' = << >>
            /\ UNCHANGED calls
       ELSE \E outcome \in SearchOutcomes(world) :
            /\ Ran("fetch_initial", search_exception_escapes(outcome.raised))
            /\ LET topic == Val(current_topic)
                   hits == outcome.hits
                   fate == [i \in 1..Len(hits) |-> hit_fate(hits[i])]
               IN  \E kept \in {parsed_hits(fate)},
                      failed \in {IndicesOf([i \in 1..Len(hits) |-> fate[i] = "invalid"])} :
                   /\ raw_results' = hits
                   /\ initial_search_results' =
                        Some([k \in 1..Len(kept) |->
                               InitialSearchResult(candidate_keywords(hits[kept[k]], topic))])
                   /\ aggregated_errors' =
                        aggregated_errors \o search_call_errors(outcome.raised)
                          \o [k \in 1..Len(failed) |-> "parse_item_error"]
                   /\ calls' = calls \o
                        [k \in 1..search_attempts(outcome.raised) |->
                           Call("search", topic, outcome.cause)]
    /\ UNCHANGED <<iteration, ranked_initial_results,
                   top_n_selected_for_full_fetch, fetched_full_content,
                   processed_structured_data, all_processed_data, all_gcs_links,
                   heap, world, dirs, files, direct, flow, scorings, mark>>

(***************************************************************************)
(* node_rank_initial_results                                               *)
(***************************************************************************)
\* settings.TOP_N_RESULTS_TO_FETCH
TOP_N_RESULTS_TO_FETCH == 5

node_rank_initial_results ==
    /\ Ran("rank_initial", FALSE)
    /\ IF ~Truthy(initial_search_results)
       THEN /\ ranked_initial_results' = Some(<< >>)
            /\ top_n_selected_for_full_fetch' = Some(<< >>)
            /\ scorings' = << >>
            /\ UNCHANGED <<initial_search_results, aggregated_errors>>
       ELSE \E current_year \in ClockYears :
            LET r == rank_initial_results(Val(initial_search_results),
                                          TOP_N_RESULTS_TO_FETCH, current_year)
            IN  \* the candidates are scored in place
                /\ initial_search_results' = Some(r.results)
                /\ scorings' = r.scorings
                /\ ranked_initial_results' = Some(r.value)
                /\ top_n_selected_for_full_fetch' = Some(r.value)
                /\ aggregated_errors' =
                     IF r.raised THEN Append(aggregated_errors, "ranking_error")
                     ELSE aggregated_errors
    /\ UNCHANGED <<iteration, fetched_full_content, processed_structured_data,
                   all_processed_data, all_gcs_links, heap, world, raw_results, dirs, files, direct, flow,
                   calls, mark>>

(***************************************************************************)
(* node_fetch_full_content                                                 *)
(***************************************************************************)
\* download_pdf_async's output_path: output_dir / file_name
DownloadPath(url) ==
    LET name == PathName(url)
    IN  [dir |-> "./temp_pdfs",
         name |-> IF endswith(lower(name), DotPdf) THEN name ELSE name \o DotPdf]

\* a test of the suffix that tells upper case from lower case
content_kind_mut(url) == IF endswith(url, DotPdf) THEN "pdf" ELSE "html"

\* line 180: the kind of content, from the url alone
content_kind(url) == IF endswith(lower(url), DotPdf) THEN "pdf" ELSE "html"

\* a loop body without the else branches: a collaborator that returns nothing
\* leaves no error message
fetch_one_mut(result, outcome) ==
    LET url == result.link
        kind == IF endswith(lower(url), DotPdf) THEN "pdf" ELSE "html"
    IN  [source_url |-> result.link, original_metadata |-> result,
         file_path |-> IF kind = "pdf" /\ outcome = "ok"
                       THEN Some([dir |-> "./temp_pdfs", name |-> PathName(url)])
                       ELSE None,
         raw_content |-> IF kind = "html" /\ outcome = "ok" THEN Some(HtmlText) ELSE None,
         content_type |-> kind,
         download_successful |-> outcome = "ok",
         error_message |-> IF outcome = "raise" THEN Some("fetch_unexpected_error")
                           ELSE None]

\* an except clause that forgets the kind the try block had set
final_content_type_mut(kind, outcome) == IF outcome = "raise" THEN "unknown" ELSE kind

\* lines 181, 186, 196 and 203: content_type is set before the collaborator
\* is called, so neither the except clause nor the constructor call finds it
\* None
final_content_type(kind, outcome) == kind

\* lines 176-203: one pass of the loop, for one selected candidate and the
\* outcome of the collaborator it calls
fetch_one(result, outcome) ==
    LET url == result.link
        kind == content_kind(url)
        err == IF outcome = "raise" THEN Some("fetch_unexpected_error")
               ELSE IF outcome = "nothing"
               THEN Some(IF kind = "pdf" THEN "pdf_download_failed"
                         ELSE "webpage_fetch_failed")
               ELSE None
    IN  FullContentData(
            result.link, result,
            IF kind = "pdf" /\ outcome = "ok" THEN Some(DownloadPath(url)) ELSE None,
            IF kind = "html" /\ outcome = "ok" THEN Some(HtmlText) ELSE None,
            final_content_type(kind, outcome), outcome = "ok", err)

\* the collaborator the loop calls for a url
fetch_collaborator(url) == IF content_kind(url) = "pdf" THEN "download" ELSE "extract"

\* a try statement around the loop in place of the one inside it: the first
\* exception ends the loop
fetch_attempts_mut(selected, outcome) ==
    LET raising == {i \in 1..Len(selected) : outcome[i] = "raise"}
    IN  IF raising = {} THEN Len(selected)
        ELSE (CHOOSE i \in raising : \A j \in raising : i <= j) - 1

\* lines 176-203: the candidates the loop reaches; try and except are inside
\* the loop body, so a failure at one candidate does not end the loop
fetch_attempts(selected, outcome) == Len(selected)

\* Path.mkdir(parents=True, exist_ok=True) and Path.rmdir()
mkdir(d, path) == d \cup {path}
rmdir(d, path) == d \ {path}

\* line 172
TempPdfDir == "./temp_pdfs"

\* a node that makes its scratch directory before it looks at the selection
early_return_dirs_mut(d) == mkdir(d, TempPdfDir)

\* lines 167-169: with nothing selected the node returns before lines
\* 172-173 make the scratch directory
early_return_dirs(d) == d

node_fetch_full_content ==
    /\ Ran("fetch_full", FALSE)
    /\ IF ~Truthy(top_n_selected_for_full_fetch)
       THEN /\ fetched_full_content' = Some(<< >>)
            /\ dirs' = early_return_dirs(dirs)
            /\ UNCHANGED <<aggregated_errors, calls, files>>
       ELSE LET selected == Val(top_n_selected_for_full_fetch)
            IN  \E outcome \in [1..Len(selected) -> FetchOutcomes(world)] :
                \E n \in {fetch_attempts(selected, outcome)} :
                LET fetched == [i \in 1..n |-> fetch_one(selected[i], outcome[i])]
                    bad == IndicesOf([i \in 1..n |-> Present(fetched[i].error_message)])
                IN  /\ fetched_full_content' = Some(fetched)
                    \* lines 172-173; no statement of the node removes it
                    /\ dirs' = mkdir(dirs, TempPdfDir)
                    \* tools.py lines 83-113: a download that succeeds has
                    \* written its file
                    /\ files' = files \cup {Val(fetched[i].file_path) :
                                               i \in {j \in 1..n : Present(fetched[j].file_path)}}
                    /\ aggregated_errors' =
                         aggregated_errors
                           \o [k \in 1..Len(bad) |-> Val(fetched[bad[k]].error_message)]
                    /\ calls' = calls \o
                         [i \in 1..n |-> Call(fetch_collaborator(selected[i].link),
                                              selected[i].link, outcome[i])]
    /\ UNCHANGED <<iteration, initial_search_results, ranked_initial_results,
                   top_n_selected_for_full_fetch, processed_structured_data,
                   all_processed_data, all_gcs_links, heap, world, raw_results, direct, flow, scorings, mark>>

(***************************************************************************)
(* processors.py: convert_content_to_markdown, and node_process_full_content *)
(***************************************************************************)
\* a dispatch on the presence of a field alone
convert_payload_mut(item) ==
    IF Present(item.file_path) THEN "file_path"
    ELSE IF Present(item.raw_content) THEN "raw_content"
    ELSE "none"

\* lines 166-178: the payload the converter is given
convert_payload(item) ==
    IF Present(item.file_path) /\ item.content_type = "pdf" THEN "file_path"
    ELSE IF Truthy(item.raw_content) /\ item.content_type = "html" THEN "raw_content"
    ELSE "none"

\* convert_content_to_markdown(item), given what Markitdown().convert does:
\* the ProcessedContent, or None
convert_content_to_markdown(item, outcome) ==
    IF convert_payload(item) = "none" THEN None
    ELSE IF outcome \in {"raise", "falsy"} THEN None
    ELSE Some(ProcessedContent(
                item.source_url, item.original_metadata,
                item.original_metadata.title, None,
                item.original_metadata.publication_date_str,
                item.original_metadata.snippet, None,
                IF outcome = "text" THEN MarkdownText ELSE << >>))

\* a guard that does not look at download_successful
is_convertible_mut(item) == Present(item.file_path) \/ Truthy(item.raw_content)

\* line 229: the items the node hands to the converter
is_convertible(item) ==
    item.download_successful /\ (Present(item.file_path) \/ Truthy(item.raw_content))

\* the outcomes of the convert call for an item: none when it is not called
ConvertOutcomesFor(item, w) ==
    IF is_convertible(item) /\ convert_payload(item) # "none"
    THEN ConvertOutcomes(w) ELSE {"not_called"}

\* a converter that is always handed the raw text
ConvertArgument_mut(item) == item.raw_content

\* the argument of the convert call
ConvertArgument(item) ==
    IF convert_payload(item) = "file_path" THEN item.file_path ELSE item.raw_content

\* a node that records every item it makes no document of, also the items
\* whose fetch had failed
recorded_at_convert_mut(item, result) == ~Present(result)

\* lines 229-245: the items for which the node appends an error: those it
\* handed to the converter and got None for; the else branch of line 242 logs
\* the items it skips and appends nothing
recorded_at_convert(item, result) == is_convertible(item) /\ ~Present(result)

node_process_full_content ==
    /\ Ran("process_full", FALSE)
    /\ IF ~Truthy(fetched_full_content)
       THEN /\ processed_structured_data' = Some(<< >>)
            /\ UNCHANGED <<all_processed_data, aggregated_errors, heap, calls>>
       ELSE LET items == Val(fetched_full_content)
                n == Len(items)
            IN  \E outcome \in [1..n -> UNION {ConvertOutcomesFor(items[i], world) : i \in 1..n}] :
                /\ \A i \in 1..n : outcome[i] \in ConvertOutcomesFor(items[i], world)
                /\ LET tried == IndicesOf([i \in 1..n |-> is_convertible(items[i])])
                       result == [i \in 1..n |-> convert_content_to_markdown(items[i], outcome[i])]
                       made == IndicesOf([i \in 1..n |->
                                  is_convertible(items[i]) /\ Present(result[i])])
                       lost == IndicesOf([i \in 1..n |->
                                  recorded_at_convert(items[i], result[i])])
                       called == IndicesOf([i \in 1..n |-> outcome[i] # "not_called"])
                       \* the new instances and the list of them
                       processed_for_this_topic == [k \in 1..Len(made) |-> Len(heap) + k]
                   IN  /\ heap' = heap \o [k \in 1..Len(made) |-> Val(result[made[k]])]
                       /\ processed_structured_data' = Some(processed_for_this_topic)
                       /\ all_processed_data' = extend(all_processed_data, processed_for_this_topic)
                       /\ aggregated_errors' =
                            aggregated_errors \o [k \in 1..Len(lost) |-> "processing_failed"]
                       /\ calls' = calls \o
                            [k \in 1..Len(called) |->
                               Call("convert", ConvertArgument(items[called[k]]),
                                    outcome[called[k]])]
    /\ UNCHANGED <<iteration, initial_search_results, ranked_initial_results,
                   top_n_selected_for_full_fetch, fetched_full_content,
                   all_gcs_links, world, raw_results, dirs, files, direct, flow, scorings, mark>>

(***************************************************************************)
(* storage.py: store_processed_content, and node_store_results             *)
(***************************************************************************)
\* re.sub(r'[^a-zA-Z0-9_\-.]', '_', s)
sanitize(s) ==
    [i \in 1..Len(s) |-> IF s[i] \in (NonWordChars \ {"-", "."}) THEN "_" ELSE s[i]]

\* the public URL upload_raw_artifact returns for an item
PublicUrl(base_path, source_url) ==
    [bucket |-> "GCS_BUCKET_NAME",
     blob |-> [base_path |-> base_path, name |-> Take(sanitize(source_url), 100),
               hash_of |-> source_url]]

\* store_processed_content(processed_data, base_path): the instances after the
\* loop; an item's link is set when its upload returned a URL.
\* outcome[k] is what the upload of the k-th item did.
store_processed_content(objects, processed_data, base_path, outcome) ==
    [id \in 1..Len(objects) |->
        IF \E k \in 1..Len(processed_data) :
              processed_data[k] = id /\ outcome[k] = "ok"
        THEN [objects[id] EXCEPT
                !.gcs_storage_link = Some(PublicUrl(base_path, objects[id].source_url))]
        ELSE objects[id]]

\* a node that appends one entry per upload that gave no link
failed_upload_errors_mut(failed_uploads) ==
    [k \in 1..failed_uploads |-> "store_failed_items"]

\* lines 284-287: what the node appends for the uploads that gave no link
failed_upload_errors(failed_uploads) ==
    IF failed_uploads > 0 THEN <<"store_failed_items">> ELSE << >>

\* storage.py line 96
TempGcsDir == "./temp_gcs_uploads"

\* Path.mkdir of storage.py line 99: done, or an OSError
MkdirOutcomes(w) == IF w = "happy" THEN {"ok"} ELSE {"ok", "raise"}

DotMd == <<".", "m", "d">>

\* storage.py line 109: temp_dir / f"{hash(item.source_url)}.md"
TempFile(source_url) == [dir |-> TempGcsDir, name |-> <<"hash">> \o source_url \o DotMd]

\* storage.py lines 111-113: the files the loop writes, one per item
scratch_files(objects, processed_data) ==
    {TempFile(objects[processed_data[k]].source_url) : k \in 1..Len(processed_data)}

\* a clean-up that unlinks nothing
cleanup_files_mut(f, dir) == f

\* storage.py lines 135-139: every file of the directory is unlinked (the
\* unlink of a file the function has just written is taken to succeed)
cleanup_files(f, dir) == {x \in f : x.dir # dir}

\* storage.py lines 98-143: the directory is made before the loop and the
\* finally block empties it and removes it; rmdir fails on a directory that
\* is not empty, and the failure is logged
upload_scratch(d, f) ==
    IF \E x \in f : x.dir = TempGcsDir
    THEN mkdir(d, TempGcsDir)
    ELSE rmdir(mkdir(d, TempGcsDir), TempGcsDir)

\* a comprehension without its filter: one entry per item, also for the
\* items that have no link
storage_links_mut(stored, processed_data) ==
    [k \in 1..Len(processed_data) |->
        IF Present(stored[processed_data[k]].gcs_storage_link)
        THEN Val(stored[processed_data[k]].gcs_storage_link)
        ELSE PublicUrl(<< >>, stored[processed_data[k]].source_url)]

\* line 277: the links of the items that have one, in the order of the items
storage_links(stored, processed_data) ==
    LET linked == IndicesOf([k \in 1..Len(processed_data) |->
                     Present(stored[processed_data[k]].gcs_storage_link)])
    IN  [k \in 1..Len(linked) |->
           Val(stored[processed_data[linked[k]]].gcs_storage_link)]

node_store_results ==
    /\ Ran("store_results", FALSE)
    /\ IF ~Truthy(processed_structured_data)
       THEN UNCHANGED <<all_gcs_links, aggregated_errors, heap, calls, dirs, files>>
       ELSE IF ~Present(current_topic)
       THEN \* topic.replace raises on None
            /\ aggregated_errors' = Append(aggregated_errors, "storage_unexpected_error")
            /\ UNCHANGED <<all_gcs_links, heap, calls, dirs, files>>
       ELSE LET processed_data_list == Val(processed_structured_data)
                n == Len(processed_data_list)
                base_path == <<"research_dataset">> \o lower(replace_space(Val(current_topic)))
            IN  \E made \in MkdirOutcomes(world) :
                IF made = "raise"
                THEN \* the finally block finds no directory to iterate over and
                     \* raises in its turn; the node's except clause takes it
                     /\ aggregated_errors' =
                          Append(aggregated_errors, "storage_unexpected_error")
                     /\ UNCHANGED <<all_gcs_links, heap, calls, dirs, files>>
                ELSE
                \E outcome \in [1..n -> UploadOutcomes(world)] :
                LET stored == store_processed_content(heap, processed_data_list,
                                                      base_path, outcome)
                    storage_links_this_topic == storage_links(stored, processed_data_list)
                    failed_uploads == n - Len(storage_links_this_topic)
                    \* the files left when the finally block is done
                    left == cleanup_files(
                                files \cup scratch_files(heap, processed_data_list),
                                TempGcsDir)
                IN  /\ heap' = stored
                    /\ files' = left
                    /\ dirs' = upload_scratch(dirs, left)
                    /\ all_gcs_links' = extend(all_gcs_links, storage_links_this_topic)
                    /\ aggregated_errors' =
                         aggregated_errors \o failed_upload_errors(failed_uploads)
                    /\ calls' = calls \o
                         [k \in 1..n |-> Call("upload", heap[processed_data_list[k]].source_url,
                                              outcome[k])]
    /\ UNCHANGED <<iteration, transients, all_processed_data, world, raw_results, direct, flow, scorings, mark>>

(***************************************************************************)
(* The conditional edge after store_results.                               *)
(***************************************************************************)
conditional_edge ==
    /\ pc = "should_continue"
    /\ pc' = ConditionalTarget(should_continue(current_topic_index, research_topics))
    /\ UNCHANGED <<iteration, transients, accumulators, heap, world, raw_results, dirs, files, direct, flow, scorings,
                   trace, calls, mark>>

(***************************************************************************)
(* The specifications.                                                     *)
(***************************************************************************)
Next ==
    \/ node_prepare_next_topic
    \/ node_fetch_initial_results
    \/ node_rank_initial_results
    \/ node_fetch_full_content
    \/ node_process_full_content
    \/ node_store_results
    \/ conditional_edge

\* a run of the pipeline as run_build_dataset_pipeline starts it
Spec == Init /\ [][Next]_vars

\* the graph engine runs the next node as long as there is one
FairSpec == Spec /\ WF_vars(Next)

\* the candidates a selection is made of
Candidates ==
    {InitialSearchResult(candidate_keywords(h, TopicA)) : h \in {HitPdf, HitHtml}}

\* a document, its link and an error that an earlier topic left behind
PriorDocument ==
    [ProcessedContent(HttpUrl(UrlHtml),
                      InitialSearchResult(candidate_keywords(HitHtml, TopicB)),
                      HitHtml.title, None, None, None, None, MarkdownText)
       EXCEPT !.gcs_storage_link =
                Some(PublicUrl(<<"research_dataset">> \o lower(TopicB), HttpUrl(UrlHtml)))]

\* node_fetch_full_content and the nodes after it, applied to a GraphState
\* whose selection is any list of candidates and whose accumulators are empty
\* or hold what an earlier topic left: a full selection for the last topic of
\* the list, at most one candidate when further topics follow
NodeInit ==
    /\ research_topics \in {[i \in 1..n |-> TopicA] : n \in 1..MaxTopics}
    /\ current_topic_index \in 0..(Len(research_topics) - 1)
    /\ current_topic = Some(research_topics[current_topic_index + 1])
    /\ top_n_selected_for_full_fetch \in {Some(sel) : sel \in SeqsUpTo(Candidates, MaxSel)}
    /\ current_topic_index < Len(research_topics) - 1
         => Len(Val(top_n_selected_for_full_fetch)) <= 1
    /\ initial_search_results = top_n_selected_for_full_fetch
    /\ ranked_initial_results = top_n_selected_for_full_fetch
    /\ fetched_full_content = None
    /\ processed_structured_data = None
    /\ \E prior \in BOOLEAN :
         /\ heap = IF prior THEN <<PriorDocument>> ELSE << >>
         /\ all_processed_data = IF prior THEN <<1>> ELSE << >>
         /\ all_gcs_links = IF prior THEN <<Val(PriorDocument.gcs_storage_link)>> ELSE << >>
         /\ aggregated_errors = IF prior THEN <<"processing_failed">> ELSE << >>
    /\ pc = "fetch_full"
    /\ world \in Worlds
    /\ dirs = {}
    /\ files = {}
    /\ raw_results = << >>
    /\ direct = None
    /\ flow = None
    /\ scorings = << >>
    /\ trace = << >>
    /\ calls = << >>
    /\ mark = Lengths

\* the runs of the pipeline, and the runs of the nodes from NodeInit
NodeSpec == (Init \/ NodeInit) /\ [][Next]_vars

FairNodeSpec == NodeSpec /\ WF_vars(Next)

(***************************************************************************)
(* The functions of the pipeline called directly, on any well-typed        *)
(* argument, as the tests call them.                                       *)
(***************************************************************************)
\* FullContentData instances: any combination of the fields the schema
\* allows, also those node_fetch_full_content does not produce
FetchedItems ==
    {FullContentData(c.link, c, file_path, raw_content, content_type, ok,
                     IF ok THEN None ELSE Some("pdf_download_failed")) :
        c \in Candidates,
        file_path \in {None, Some(DownloadPath(UrlPdf))},
        raw_content \in {None, Some(<< >>), Some(HtmlText)},
        content_type \in {"pdf", "html", "unknown"},
        ok \in BOOLEAN}

\* a GraphState in which no node has run, for one topic
BlankState ==
    /\ research_topics = <<TopicA>>
    /\ current_topic_index = 0
    /\ current_topic = Some(TopicA)
    /\ initial_search_results = None
    /\ ranked_initial_results = None
    /\ top_n_selected_for_full_fetch = None
    /\ fetched_full_content = None
    /\ processed_structured_data = None
    /\ all_processed_data = << >>
    /\ all_gcs_links = << >>
    /\ aggregated_errors = << >>
    /\ heap = << >>
    /\ world = "any"
    /\ dirs = {}
    /\ files = {}
    /\ raw_results = << >>
    /\ trace = << >>
    /\ calls = << >>
    /\ mark = [docs |-> 0, links |-> 0, errors |-> 0]

DirectCall(fn, arg) ==
    [fn |-> fn, arg |-> arg, outcome |-> "pending", instantiated |-> FALSE,
     ret |-> None]

\* processors.py lines 162-164: Markitdown(enable_plugins=False) is the first
\* statement of the try block, before the item's fields are looked at
instantiates_converter(item) == TRUE

\* convert_content_to_markdown(item) is about to be called
ConvertInit ==
    /\ BlankState
    /\ pc = "call"
    /\ direct \in {Some(DirectCall("convert_content_to_markdown", item)) :
                      item \in FetchedItems}
    /\ flow = None
    /\ scorings = << >>

\* the call: the converter is used when the item has a payload for it
call_convert_content_to_markdown ==
    /\ pc = "call"
    /\ Present(direct)
    /\ Val(direct).fn = "convert_content_to_markdown"
    /\ LET item == Val(direct).arg
       IN  \E outcome \in (IF convert_payload(item) = "none" THEN {"not_called"}
                            ELSE ConvertOutcomes(world)) :
           direct' = Some([Val(direct) EXCEPT
                             !.outcome = outcome,
                             !.instantiated = instantiates_converter(item),
                             !.ret = convert_content_to_markdown(item, outcome)])
    /\ pc' = "returned"
    /\ UNCHANGED <<iteration, transients, accumulators, heap, world, raw_results, dirs, files,
                   flow, scorings, trace, calls, mark>>

\* node_process_full_content applied to a GraphState whose fetched list holds
\* any one item
ProcessInit ==
    /\ research_topics = <<TopicA>>
    /\ current_topic_index = 0
    /\ current_topic = Some(TopicA)
    /\ fetched_full_content \in {Some(<<item>>) : item \in FetchedItems}
    /\ top_n_selected_for_full_fetch = Some(<<Val(fetched_full_content)[1].original_metadata>>)
    /\ initial_search_results = top_n_selected_for_full_fetch
    /\ ranked_initial_results = top_n_selected_for_full_fetch
    /\ processed_structured_data = None
    /\ all_processed_data = << >>
    /\ all_gcs_links = << >>
    /\ aggregated_errors = << >>
    /\ heap = << >>
    /\ pc = "process_full"
    /\ world = "any"
    /\ dirs = {TempPdfDir}
    /\ files = {}
    /\ raw_results = << >>
    /\ direct = None
    /\ flow = None
    /\ scorings = << >>
    /\ trace = << >>
    /\ calls = << >>
    /\ mark = [docs |-> 0, links |-> 0, errors |-> 0]

\* node_fetch_initial_results applied to a GraphState with a topic, the
\* search returning hits of every form
SearchInit ==
    /\ research_topics = <<TopicA>>
    /\ current_topic_index = 0
    /\ current_topic = Some(TopicA)
    /\ initial_search_results = None
    /\ ranked_initial_results = None
    /\ top_n_selected_for_full_fetch = None
    /\ fetched_full_content = None
    /\ processed_structured_data = None
    /\ all_processed_data = << >>
    /\ all_gcs_links = << >>
    /\ aggregated_errors = << >>
    /\ heap = << >>
    /\ pc = "fetch_initial"
    /\ world = "varied"
    /\ dirs = {}
    /\ files = {}
    /\ raw_results = << >>
    /\ direct = None
    /\ flow = None
    /\ scorings = << >>
    /\ trace = << >>
    /\ calls = << >>
    /\ mark = [docs |-> 0, links |-> 0, errors |-> 0]

\* run_build_dataset_pipeline with the search collaborator of tools.py
ShippedInit ==
    /\ research_topics \in TopicLists
    /\ current_topic_index = -1
    /\ current_topic = None
    /\ initial_search_results = None
    /\ ranked_initial_results = None
    /\ top_n_selected_for_full_fetch = None
    /\ fetched_full_content = None
    /\ processed_structured_data = None
    /\ all_processed_data = << >>
    /\ all_gcs_links = << >>
    /\ aggregated_errors = << >>
    /\ heap = << >>
    /\ pc = "prepare_next_topic"
    /\ world = "shipped"
    /\ dirs = {}
    /\ files = {}
    /\ raw_results = << >>
    /\ direct = None
    /\ flow = None
    /\ scorings = << >>
    /\ trace = << >>
    /\ calls = << >>
    /\ mark = [docs |-> 0, links |-> 0, errors |-> 0]

\* the candidates of FetchInit: those of NodeInit and one whose link ends in
\* an upper-case .PDF
FetchCandidates ==
    Candidates \cup {InitialSearchResult(candidate_keywords(HitPdfUpper, TopicA))}

\* node_fetch_full_content applied to a GraphState whose selection holds the
\* upper-case candidate, alone or next to another one
FetchInit ==
    /\ research_topics = <<TopicA>>
    /\ current_topic_index = 0
    /\ current_topic = Some(TopicA)
    /\ top_n_selected_for_full_fetch \in
          {Some(sel) : sel \in {t \in SeqsUpTo(FetchCandidates, MaxSel) :
                                  \E i \in 1..Len(t) : t[i].link = HttpUrl(UrlPdfUpper)}}
    /\ initial_search_results = top_n_selected_for_full_fetch
    /\ ranked_initial_results = top_n_selected_for_full_fetch
    /\ fetched_full_content = None
    /\ processed_structured_data = None
    /\ all_processed_data = << >>
    /\ all_gcs_links = << >>
    /\ aggregated_errors = << >>
    /\ heap = << >>
    /\ pc = "fetch_full"
    /\ world = "any"
    /\ dirs = {}
    /\ files = {}
    /\ raw_results = << >>
    /\ direct = None
    /\ flow = None
    /\ scorings = << >>
    /\ trace = << >>
    /\ calls = << >>
    /\ mark = [docs |-> 0, links |-> 0, errors |-> 0]

\* the locals of node_fetch_full_content when its loop begins: no candidate
\* reached, no call awaited, an empty fetched_content_list.  events is the
\* history of the calls made and of the calls that are done.
Coroutine ==
    [next |-> 1, awaited |-> {}, fetched_content_list |-> << >>, events |-> << >>]

\* node_fetch_full_content, run statement by statement, has made its scratch
\* directory and is about to enter its loop over a selection of candidates
LoopInit ==
    /\ research_topics = <<TopicA>>
    /\ current_topic_index = 0
    /\ current_topic = Some(TopicA)
    /\ top_n_selected_for_full_fetch \in
          {Some(sel) : sel \in SeqsUpTo(Candidates, MaxSel) \ {<< >>}}
    /\ initial_search_results = top_n_selected_for_full_fetch
    /\ ranked_initial_results = top_n_selected_for_full_fetch
    /\ fetched_full_content = None
    /\ processed_structured_data = None
    /\ all_processed_data = << >>
    /\ all_gcs_links = << >>
    /\ aggregated_errors \in {<< >>, <<"processing_failed">>}
    /\ heap = << >>
    /\ pc = "fetch_loop"
    /\ world = "any"
    /\ dirs = {TempPdfDir}
    /\ files = {}
    /\ raw_results = << >>
    /\ direct = None
    /\ flow = Some(Coroutine)
    /\ scorings = << >>
    /\ trace = << >>
    /\ calls = << >>
    /\ mark = Lengths

\* calls started as tasks, none of them awaited before the next one is made
may_call_next_mut(awaited) == TRUE

\* lines 175-187: the loop body awaits the call it makes, which suspends the
\* coroutine until the call is done; the loop goes on to the next candidate
\* only when no call is awaited
may_call_next(awaited) == awaited = {}

\* lines 176-187: the loop reaches the next candidate and calls its
\* collaborator
fetch_loop_call ==
    /\ pc = "fetch_loop"
    /\ Present(flow)
    /\ Val(flow).next <= Len(Val(top_n_selected_for_full_fetch))
    /\ may_call_next(Val(flow).awaited)
    /\ flow' = Some([Val(flow) EXCEPT
                       !.next = @ + 1,
                       !.awaited = @ \cup {Val(flow).next},
                       !.events = Append(@, [kind |-> "call", index |-> Val(flow).next])])
    /\ UNCHANGED <<iteration, transients, accumulators, heap, pc, world, dirs, files,
                   raw_results, direct, scorings, trace, calls, mark>>

\* lines 182-203: an awaited call is done; the rest of the loop body appends
\* the error message, if any, to the state's aggregated_errors list and the
\* item to fetched_content_list
fetch_loop_resume ==
    /\ pc = "fetch_loop"
    /\ Present(flow)
    /\ \E i \in Val(flow).awaited, outcome \in FetchOutcomes(world) :
         \E item \in {fetch_one(Val(top_n_selected_for_full_fetch)[i], outcome)} :
           /\ flow' = Some([Val(flow) EXCEPT
                              !.awaited = @ \ {i},
                              !.fetched_content_list = Append(@, item),
                              !.events = Append(@, [kind |-> "done", index |-> i])])
           /\ aggregated_errors' =
                IF Present(item.error_message)
                THEN Append(aggregated_errors, Val(item.error_message))
                ELSE aggregated_errors
           /\ files' = IF Present(item.file_path) THEN files \cup {Val(item.file_path)}
                       ELSE files
           /\ calls' = Append(calls, Call(fetch_collaborator(item.source_url),
                                          item.source_url, outcome))
    /\ UNCHANGED <<iteration, transients, all_processed_data, all_gcs_links, heap, pc,
                   world, dirs, raw_results, direct, scorings, trace, mark>>

\* lines 205-207: the loop is over and the node returns its list
fetch_loop_return ==
    /\ pc = "fetch_loop"
    /\ Present(flow)
    /\ Val(flow).next > Len(Val(top_n_selected_for_full_fetch))
    /\ Val(flow).awaited = {}
    /\ fetched_full_content' = Some(Val(flow).fetched_content_list)
    /\ flow' = None
    /\ pc' = EdgeFrom("fetch_full")
    /\ trace' = Append(trace, "fetch_full")
    /\ UNCHANGED <<iteration, initial_search_results, ranked_initial_results,
                   top_n_selected_for_full_fetch, processed_structured_data,
                   accumulators, heap, world, dirs, files, raw_results, direct, scorings, calls,
                   mark>>

\* the runs of the pipeline, of its nodes, and the direct calls
CallNext ==
    \/ Next
    \/ call_convert_content_to_markdown
    \/ fetch_loop_call
    \/ fetch_loop_resume
    \/ fetch_loop_return

CallSpec ==
    (Init \/ NodeInit \/ SearchInit \/ FetchInit \/ ProcessInit \/ ConvertInit \/ LoopInit
       \/ ShippedInit) /\ [][CallNext]_vars

(***************************************************************************)
(* Properties of the run.                                                  *)
(***************************************************************************)
\* the outcomes of a collaborator call that are failures
FailureOutcomes == {"raise", "nothing", "falsy"}

FailedCalls(fns) ==
    {i \in 1..Len(calls) : calls[i].fn \in fns /\ calls[i].out \in FailureOutcomes}

\* the entries the failures of the current topic's calls account for: one for
\* each failed search, download, extract or convert call, and one for the
\* PERSIST stage when an upload failed
FailureEntries ==
    Cardinality(FailedCalls({"search", "download", "extract", "convert"}))
      + (IF FailedCalls({"upload"}) # {} THEN 1 ELSE 0)

\* the field a node returns is set once the node has run
DeltaReturned ==
    /\ pc \in {"rank_initial", "fetch_full"} /\ Len(trace) > 0
         => Present(initial_search_results)
    /\ pc = "fetch_full" /\ Len(trace) > 0 => Present(top_n_selected_for_full_fetch)
    /\ pc = "process_full" => Present(fetched_full_content)
    /\ pc \in {"store_results", "should_continue"} => Present(processed_structured_data)

\* C1: whatever the collaborators do (succeed, return nothing, raise), no
\* exception leaves a stage, every stage with a failed call has appended to
\* aggregated_errors and returned its (empty or partial) field, and the run
\* reaches END.
C1_RunReachesEnd ==
    /\ [](pc # "ABORTED")
    /\ [](Len(aggregated_errors) - mark.errors >= FailureEntries)
    /\ [](DeltaReturned)
    /\ <>(pc = "END")

\* a finished run in which a download raised and an upload raised
C1_Witness ==
    /\ pc = "END"
    /\ \E i, j \in 1..Len(calls) :
         /\ calls[i].fn = "download" /\ calls[i].out = "raise"
         /\ calls[j].fn = "upload" /\ calls[j].out = "raise"
    /\ Len(aggregated_errors) - mark.errors = 2

IsPrefix(s, t) == Len(s) <= Len(t) /\ SubSeq(t, 1, Len(s)) = s

\* C2: at every step of every node, each of all_processed_data, all_gcs_links
\* and aggregated_errors before the step is a prefix of its value after the
\* step: nothing is removed, reordered, cleared or truncated.
C2_AccumulatorsAppendOnly ==
    [][/\ IsPrefix(all_processed_data, all_processed_data')
       /\ IsPrefix(all_gcs_links, all_gcs_links')
       /\ IsPrefix(aggregated_errors, aggregated_errors')]_vars

\* a topic has added to all three accumulators, none of which was empty
C2_Witness ==
    /\ pc = "should_continue"
    /\ mark.docs >= 1 /\ Len(all_processed_data) > mark.docs
    /\ mark.links >= 1 /\ Len(all_gcs_links) > mark.links
    /\ mark.errors >= 1 /\ Len(aggregated_errors) > mark.errors

StageOrder ==
    <<"prepare_next_topic", "fetch_initial", "rank_initial", "fetch_full",
      "process_full", "store_results">>

\* C3: the nodes run in the order prepare_next_topic, fetch_initial,
\* rank_initial, fetch_full, process_full, store_results, once each per topic;
\* the continue/end decision is taken only after store_results; a run over a
\* single topic has run each node exactly once when it ends.
C3_StageOrder ==
    /\ \A i \in 1..Len(trace) : trace[i] = StageOrder[((i - 1) % 6) + 1]
    /\ pc \in {"should_continue", "END"} => Len(trace) > 0 /\ Len(trace) % 6 = 0
    /\ pc \notin {"should_continue", "END"} => pc = StageOrder[(Len(trace) % 6) + 1]
    /\ pc = "END" /\ Len(research_topics) = 1 => trace = StageOrder

\* a run over one topic has ended
C3_Witness ==
    pc = "END" /\ Len(research_topics) = 1 /\ Len(trace) = 6

PreparesIn(t) == {i \in 1..Len(t) : t[i] = "prepare_next_topic"}

\* C4: for a non-empty list of n topics, the k-th run of prepare_next_topic
\* moves the index to k-1 and the topic to the k-th of the list, every
\* prepare_next_topic but the first directly follows a store_results, and the
\* run ends at index n-1 after n iterations.
C4_TopicsInOrder ==
    Len(research_topics) > 0 =>
        /\ current_topic_index = Cardinality(PreparesIn(trace)) - 1
        /\ current_topic_index < Len(research_topics)
        /\ current_topic_index >= 0 =>
             current_topic = Some(research_topics[current_topic_index + 1])
        /\ \A i \in PreparesIn(trace) : i > 1 => trace[i - 1] = "store_results"
        /\ pc = "prepare_next_topic" /\ Len(trace) > 0 =>
             trace[Len(trace)] = "store_results"
        /\ pc = "END" =>
             /\ current_topic_index = Len(research_topics) - 1
             /\ Len(trace) = 6 * Len(research_topics)

\* a run over two topics has ended
C4_Witness ==
    pc = "END" /\ Len(research_topics) = 2 /\ current_topic_index = 1
      /\ Cardinality(PreparesIn(trace)) = 2

\* C5: a finished run over the topics A and B in which every search returned
\* one hit with a .pdf link and one with another link and every download,
\* extract, convert and upload call succeeded holds 4 documents, 4 links and
\* no error.
C5_FourDocuments ==
    pc = "END" /\ world = "happy" /\ research_topics = <<TopicA, TopicB>> =>
        /\ Len(all_processed_data) = 4
        /\ Len(all_gcs_links) = 4
        /\ aggregated_errors = << >>

\* the search call of the current topic raised
SearchRaised ==
    Len(calls) > 0 /\ calls[1].fn = "search" /\ calls[1].out = "raise"

\* C6: when the search call of a topic raises, the topic has no candidates and
\* adds no document, exactly one entry is appended to aggregated_errors over
\* all of the topic's stages, no exception ends the run, and the run goes on
\* to the next node until it has ended.
C6_SearchRaises ==
    SearchRaised =>
        /\ pc # "ABORTED"
        /\ initial_search_results = Some(<< >>)
        /\ Len(all_processed_data) = mark.docs
        /\ Len(all_gcs_links) = mark.links
        /\ Len(aggregated_errors) = mark.errors + 1
        /\ pc = "END" \/ ENABLED Next

\* after a topic whose search raised, the run has decided to continue with
\* the next topic
C6_Witness ==
    /\ SearchRaised
    /\ pc = "prepare_next_topic"
    /\ current_topic_index = 0
    /\ aggregated_errors = <<"serpapi_call_error">>

\* the step of node_store_results
PersistStep == pc = "store_results" /\ pc' = "should_continue"

\* N: the documents the step is given
PersistGiven ==
    IF Present(processed_structured_data) THEN Val(processed_structured_data) ELSE << >>

\* K: the upload calls of the step that succeeded
PersistUploaded ==
    Cardinality({i \in (Len(calls) + 1)..Len(calls') :
                    calls'[i].fn = "upload" /\ calls'[i].out = "ok"})

\* what the step does to the documents and the links: all N documents are
\* kept, K of them have a link, K links are appended
PersistOutput ==
    /\ processed_structured_data' = processed_structured_data
    /\ \A k \in 1..Len(PersistGiven) : ~Present(heap[PersistGiven[k]].gcs_storage_link)
    /\ Cardinality({k \in 1..Len(PersistGiven) :
                      Present(heap'[PersistGiven[k]].gcs_storage_link)}) = PersistUploaded
    /\ IsPrefix(all_gcs_links, all_gcs_links')
    /\ Len(all_gcs_links') = Len(all_gcs_links) + PersistUploaded

C8_ShouldContinue ==
    [][pc = "should_continue" =>
         /\ (pc' = "prepare_next_topic") = (current_topic_index + 1 < Len(research_topics))
         /\ (pc' = "END") = ~(current_topic_index + 1 < Len(research_topics))
         /\ (Len(research_topics) > 0 /\ current_topic_index < Len(research_topics) - 1)
              => pc' = "prepare_next_topic"
         /\ current_topic_index = Len(research_topics) - 1 => pc' = "END"
         /\ UNCHANGED <<iteration, transients, accumulators, heap>>]_vars

\* the decision was "continue" after the first topic and "end" after the
\* second
C8_Witness ==
    pc = "END" /\ Len(research_topics) = 2 /\ Len(trace) = 12

\* C9: when prepare_next_topic moves to a valid index, the index grows by one,
\* current_topic is the topic at the new index, the five per-topic fields are
\* reset to None, and research_topics and the three accumulators are left as
\* they were.
C9_PrepareFrame ==
    [][(pc = "prepare_next_topic" /\ current_topic_index + 1 < Len(research_topics)) =>
         /\ current_topic_index' = current_topic_index + 1
         /\ current_topic' = Some(research_topics[current_topic_index' + 1])
         /\ initial_search_results' = None
         /\ ranked_initial_results' = None
         /\ top_n_selected_for_full_fetch' = None
         /\ fetched_full_content' = None
         /\ processed_structured_data' = None
         /\ UNCHANGED <<research_topics, accumulators, heap>>]_vars

\* the second topic has been prepared after a first one that left documents,
\* links and errors
C9_Witness ==
    /\ pc = "fetch_initial"
    /\ current_topic_index = 1
    /\ current_topic = Some(research_topics[2])
    /\ Len(all_processed_data) >= 2 /\ Len(all_gcs_links) >= 2
    /\ Len(aggregated_errors) >= 1
    /\ fetched_full_content = None /\ processed_structured_data = None

\* C10: a run over an empty topic list, where prepare_next_topic finds no
\* valid index, ends without running any node after prepare_next_topic and
\* with aggregated_errors as it was.
C10_EmptyListEndsAtOnce ==
    Len(research_topics) = 0 =>
        /\ \A i \in 1..Len(trace) : trace[i] = "prepare_next_topic"
        /\ aggregated_errors = << >>

\* the step of node_fetch_full_content
FetchStep == pc = "fetch_full" /\ pc' = "process_full"

\* the selection the step is given
FetchGiven ==
    IF Present(top_n_selected_for_full_fetch)
    THEN Val(top_n_selected_for_full_fetch) ELSE << >>

\* C11: node_fetch_full_content returns one FullContentData per selected
\* candidate, in the order of the selection, with the candidate's link as
\* source_url, and calls a collaborator for every candidate whatever the
\* calls for the earlier candidates did.
C11_OneItemPerCandidate ==
    [][FetchStep =>
         /\ Present(fetched_full_content')
         /\ Len(Val(fetched_full_content')) = Len(FetchGiven)
         /\ \A i \in 1..Len(FetchGiven) :
              /\ Val(fetched_full_content')[i].source_url = FetchGiven[i].link
              /\ Val(fetched_full_content')[i].original_metadata = FetchGiven[i]
         /\ Len(calls') = Len(calls) + Len(FetchGiven)
         /\ \A i \in 1..Len(FetchGiven) :
              /\ calls'[Len(calls) + i].fn \in {"download", "extract"}
              /\ calls'[Len(calls) + i].arg = FetchGiven[i].link]_vars

\* the call for the first candidate raised, the second was attempted and
\* succeeded, and both have their item
C11_Witness ==
    /\ pc = "process_full"
    /\ Len(calls) = 2
    /\ calls[1].out = "raise" /\ calls[2].out = "ok"
    /\ Len(Val(fetched_full_content)) = 2
    /\ ~Val(fetched_full_content)[1].download_successful
    /\ Val(fetched_full_content)[2].download_successful

\* C12: an item node_fetch_full_content produces with download_successful
\* true has exactly one of file_path and raw_content set, file_path for a pdf
\* and raw_content for html; one with download_successful false has neither
\* and has an error_message.
C12_ExactlyOnePayload ==
    [][FetchStep =>
         \A i \in 1..Len(Val(fetched_full_content')) :
            LET item == Val(fetched_full_content')[i]
            IN  IF item.download_successful
                THEN /\ Present(item.file_path) # Present(item.raw_content)
                     /\ item.content_type = "pdf" => Present(item.file_path)
                     /\ item.content_type = "html" => Present(item.raw_content)
                     /\ item.content_type \in {"pdf", "html"}
                ELSE /\ ~Present(item.file_path)
                     /\ ~Present(item.raw_content)
                     /\ Present(item.error_message)]_vars

\* a fetched pdf next to a page whose extraction returned nothing
C12_Witness ==
    /\ pc = "process_full"
    /\ Present(fetched_full_content)
    /\ \E i, j \in 1..Len(Val(fetched_full_content)) :
         /\ Val(fetched_full_content)[i].download_successful
         /\ Val(fetched_full_content)[i].content_type = "pdf"
         /\ Present(Val(fetched_full_content)[i].file_path)
         /\ ~Val(fetched_full_content)[j].download_successful
         /\ Val(fetched_full_content)[j].content_type = "html"
         /\ Val(fetched_full_content)[j].error_message = Some("webpage_fetch_failed")

\* a direct call of fn has returned
DirectReturned(fn) ==
    pc = "returned" /\ Present(direct) /\ Val(direct).fn = fn

\* neither a file path nor a non-empty raw content
BothEmpty(item) == ~Present(item.file_path) /\ ~Truthy(item.raw_content)

\* the step of node_process_full_content
ConvertStep == pc = "process_full" /\ pc' = "store_results"

\* the items the step is given
ConvertGiven ==
    IF Present(fetched_full_content) THEN Val(fetched_full_content) ELSE << >>

\* the documents the step creates
ConvertCreated == [k \in 1..(Len(heap') - Len(heap)) |-> heap'[Len(heap) + k]]

C14_DocumentsFromSuccessfulFetches ==
    [][ConvertStep =>
         /\ Len(ConvertCreated) <=
              Cardinality({i \in 1..Len(ConvertGiven) : ConvertGiven[i].download_successful})
         /\ \A k \in 1..Len(ConvertCreated) :
              \E i \in k..Len(ConvertGiven) :
                 /\ ConvertGiven[i].download_successful
                 /\ ConvertCreated[k].source_url = ConvertGiven[i].source_url
                 /\ ConvertCreated[k].original_metadata = ConvertGiven[i].original_metadata
         /\ Present(processed_structured_data')
         /\ Val(processed_structured_data') =
              [k \in 1..Len(ConvertCreated) |-> Len(heap) + k]
         /\ all_processed_data' = all_processed_data \o Val(processed_structured_data')]_vars

\* a topic with one failed and one successful fetch has one document
C14_Witness ==
    /\ pc = "store_results"
    /\ Len(ConvertGiven) = 2
    /\ ~ConvertGiven[1].download_successful
    /\ ConvertGiven[2].download_successful
    /\ Present(processed_structured_data)
    /\ Len(Val(processed_structured_data)) = 1
    /\ heap[Val(processed_structured_data)[1]].source_url = ConvertGiven[2].source_url

\* node_rank_initial_results has just run
RankDone == pc = "fetch_full" /\ Len(trace) > 0

\* the candidates the ranker was given, as the scoring loop left them
RankGiven ==
    IF Present(initial_search_results) THEN Val(initial_search_results) ELSE << >>

\* the list the ranker returned
RankReturned ==
    IF Present(ranked_initial_results) THEN Val(ranked_initial_results) ELSE << >>

\* the sort key of a candidate
ScoreKey(c) == IF Present(c.quality_score) THEN Val(c.quality_score) ELSE -1

\* C15: rank_initial_results returns min(top_n, len(candidates)) candidates,
\* in non-increasing order of quality score, none of the omitted candidates
\* having a higher score than a returned one; an empty list gives an empty
\* list.
C15_RankLengthAndOrder ==
    RankDone =>
        /\ Len(RankReturned) = Min(TOP_N_RESULTS_TO_FETCH, Len(RankGiven))
        /\ \A p, q \in 1..Len(RankReturned) :
              p < q => ScoreKey(RankReturned[p]) >= ScoreKey(RankReturned[q])
        /\ \A p \in 1..Len(RankReturned) : \E i \in 1..Len(RankGiven) :
              RankReturned[p] = RankGiven[i]
        /\ \A i \in 1..Len(RankGiven) :
              (\A p \in 1..Len(RankReturned) : RankReturned[p] # RankGiven[i])
                => \A p \in 1..Len(RankReturned) :
                      ScoreKey(RankGiven[i]) <= ScoreKey(RankReturned[p])

\* C16: two candidates with equal quality score appear in the ranker's output
\* in the order they had in its input (both are within the first top_n when
\* the input is no longer than top_n).
C16_RankStable ==
    RankDone /\ Len(RankGiven) <= TOP_N_RESULTS_TO_FETCH =>
        \A i, j \in 1..Len(RankGiven) :
            (i < j /\ ScoreKey(RankGiven[i]) = ScoreKey(RankGiven[j])) =>
                \E p, q \in 1..Len(RankReturned) :
                    /\ p < q
                    /\ RankReturned[p] = RankGiven[i]
                    /\ RankReturned[q] = RankGiven[j]

InUnit(x) == 0 <= x /\ x <= 10000

\* C17: for every candidate the ranker is given, the four components of the
\* score lie in [0, 1] and so does the weighted total the candidate receives.
C17_ScoresInUnitInterval ==
    RankDone =>
        \A i \in 1..Len(RankGiven) : \A current_year \in ClockYears :
            /\ InUnit(recency_score(RankGiven[i], current_year))
            /\ InUnit(source_authority_score(RankGiven[i]))
            /\ InUnit(citation_score(RankGiven[i]))
            /\ Present(RankGiven[i].quality_score)
            /\ 0 <= Val(RankGiven[i].quality_score)
            /\ Val(RankGiven[i].quality_score) <= 100000
            /\ HasAttr(RankGiven[i], "original_metadata")
            /\ InUnit(relevance_score(RankGiven[i]))

\* C18: when the run has reached END, neither the download scratch directory
\* nor the upload scratch directory exists.
C18_ScratchDirsDeleted ==
    pc = "END" => (TempPdfDir \notin dirs /\ TempGcsDir \notin dirs)

\* the documents created so far, in the order the CONVERT stages created them
DocumentsCreated == [id \in 1..Len(heap) |-> id]

\* the links the PERSIST stages obtained, in the order of their documents
LinksObtained ==
    LET linked == IndicesOf([id \in 1..Len(heap) |-> Present(heap[id].gcs_storage_link)])
    IN  [k \in 1..Len(linked) |-> Val(heap[linked[k]].gcs_storage_link)]

\* C19: at END, all_processed_data is the concatenation, in topic order and
\* within a topic in the order of the fetched items, of the documents the
\* process_full steps created, and all_gcs_links is the concatenation, in the
\* same order, of the links the store_results steps obtained; what an earlier
\* topic added is still there whatever failed in a later topic.
C19_AccumulatorsAreConcatenations ==
    pc = "END" =>
        /\ all_processed_data = DocumentsCreated
        /\ all_gcs_links = LinksObtained

\* a run has ended after two topics: the first left a document and a link, the
\* second failed and left only an error
C19_Witness ==
    /\ pc = "END"
    /\ current_topic_index = 1
    /\ mark.docs >= 1 /\ Len(all_processed_data) = mark.docs
    /\ mark.links >= 1 /\ Len(all_gcs_links) = mark.links
    /\ Len(aggregated_errors) > mark.errors
    /\ Len(trace) >= 9

\* the step of node_rank_initial_results
RankStep == pc = "rank_initial" /\ pc' = "fetch_full"

\* C20: when node_rank_initial_results is given n >= 1 candidates built by
\* node_fetch_initial_results, it gives every one of them a score, selects
\* min(TOP_N_RESULTS_TO_FETCH, n) of them and appends nothing to
\* aggregated_errors.
C20_ScoringNeverFails ==
    [][(RankStep /\ Truthy(initial_search_results)) =>
          /\ aggregated_errors' = aggregated_errors
          /\ Present(top_n_selected_for_full_fetch')
          /\ Len(Val(top_n_selected_for_full_fetch')) =
                Min(TOP_N_RESULTS_TO_FETCH, Len(Val(initial_search_results)))
          /\ Present(initial_search_results')
          /\ \A i \in 1..Len(Val(initial_search_results')) :
                Present(Val(initial_search_results')[i].quality_score)]_vars

\* a url ends in .pdf, whatever the case of its letters
EndsInPdf(url) == endswith(lower(url), DotPdf)

\* the calls a step makes
NewCalls == [k \in 1..(Len(calls') - Len(calls)) |-> calls'[Len(calls) + k]]

\* C21: for each selected candidate node_fetch_full_content takes the kind of
\* content from the url alone (pdf when the url ends in .pdf in any case, html
\* otherwise) and makes one call: to download_pdf_async for a pdf, to
\* fetch_webpage_content for html, never to the other one.
C21_OneCollaboratorPerCandidate ==
    [][FetchStep =>
         /\ Len(NewCalls) = Len(FetchGiven)
         /\ \A i \in 1..Len(FetchGiven) :
              LET url == FetchGiven[i].link
                  item == Val(fetched_full_content')[i]
              IN  /\ NewCalls[i].arg = url
                  /\ NewCalls[i].fn = "download" <=> EndsInPdf(url)
                  /\ NewCalls[i].fn = "extract" <=> ~EndsInPdf(url)
                  /\ item.content_type = "pdf" <=> EndsInPdf(url)
                  /\ item.content_type = "html" <=> ~EndsInPdf(url)]_vars

\* a selection of a link ending in .PDF and a link without the suffix has been
\* fetched: one download call for the first, one extract call for the second
C21_Witness ==
    /\ pc = "process_full"
    /\ Len(calls) = 2
    /\ calls[1] = Call("download", HttpUrl(UrlPdfUpper), "ok")
    /\ calls[2].fn = "extract" /\ calls[2].arg = HttpUrl(UrlHtml)
    /\ Val(fetched_full_content)[1].content_type = "pdf"
    /\ Val(fetched_full_content)[2].content_type = "html"

\* C22: when the collaborator called for a candidate raises, the candidate's
\* item has download_successful false, an error_message, no file_path and no
\* raw_content, and keeps the kind that was determined from the url before the
\* call; it is not "unknown".
C22_RaisingCollaborator ==
    [][FetchStep =>
         \A i \in 1..Len(FetchGiven) :
            NewCalls[i].out = "raise" =>
               LET item == Val(fetched_full_content')[i]
               IN  /\ ~item.download_successful
                   /\ Present(item.error_message)
                   /\ item.file_path = None
                   /\ item.raw_content = None
                   /\ item.content_type =
                        (IF EndsInPdf(FetchGiven[i].link) THEN "pdf" ELSE "html")
                   /\ \E k \in (Len(aggregated_errors) + 1)..Len(aggregated_errors') :
                         aggregated_errors'[k] = Val(item.error_message)]_vars

\* the download of a pdf and the extraction of a page have both raised
C22_Witness ==
    /\ pc = "process_full"
    /\ Len(calls) = 2
    /\ calls[1] = Call("download", HttpUrl(UrlPdfUpper), "raise")
    /\ calls[2] = Call("extract", HttpUrl(UrlHtml), "raise")
    /\ \A i \in 1..2 : /\ ~Val(fetched_full_content)[i].download_successful
                       /\ Present(Val(fetched_full_content)[i].error_message)

\* the items of the step for which the converter has a payload of the item's
\* kind, in the order of the list
Dispatched ==
    IndicesOf([i \in 1..Len(ConvertGiven) |->
        /\ ConvertGiven[i].download_successful
        /\ \/ ConvertGiven[i].content_type = "pdf" /\ Present(ConvertGiven[i].file_path)
           \/ ConvertGiven[i].content_type = "html" /\ Truthy(ConvertGiven[i].raw_content)])

\* the convert calls of the step that returned a result
Converted == IndicesOf([k \in 1..Len(NewCalls) |-> NewCalls[k].out \in {"text", "emptytext"}])

\* C23: for the items with download_successful true the converter is called
\* once per item that is a pdf with a file_path or html with raw_content, with
\* the file path in the first case and the raw text in the second, and the
\* document made from a call that returned a text has that text as its
\* full_text_markdown.
C23_DispatchOnPayload ==
    [][ConvertStep =>
         /\ Len(NewCalls) = Len(Dispatched)
         /\ \A k \in 1..Len(Dispatched) :
              LET item == ConvertGiven[Dispatched[k]]
              IN  /\ NewCalls[k].fn = "convert"
                  /\ NewCalls[k].arg =
                       (IF item.content_type = "pdf" THEN item.file_path
                        ELSE item.raw_content)
         /\ Len(ConvertCreated) = Len(Converted)
         /\ \A d \in 1..Len(Converted) :
              /\ ConvertCreated[d].source_url =
                    ConvertGiven[Dispatched[Converted[d]]].source_url
              /\ NewCalls[Converted[d]].out = "text" =>
                    ConvertCreated[d].full_text_markdown = MarkdownText]_vars

\* a pdf and a page have been converted, the first from its file path and the
\* second from its raw text, and both documents hold the converter's text
C23_Witness ==
    /\ pc = "store_results"
    /\ Len(calls) = 4
    /\ calls[3] = Call("convert", Some(DownloadPath(HttpUrl(UrlPdf))), "text")
    /\ calls[4] = Call("convert", Some(HtmlText), "text")
    /\ Len(Val(processed_structured_data)) = 2
    /\ \A d \in 1..2 :
         heap[Val(processed_structured_data)[d]].full_text_markdown = MarkdownText

\* C24: convert_content_to_markdown, given an item whose file_path and
\* raw_content are both None, returns None without instantiating Markitdown
\* and without calling its convert method.
C24_ConverterUntouched ==
    DirectReturned("convert_content_to_markdown") =>
        LET item == Val(direct).arg
        IN  (item.file_path = None /\ item.raw_content = None) =>
               /\ Val(direct).ret = None
               /\ Val(direct).outcome = "not_called"
               /\ ~Val(direct).instantiated

\* the documents the state holds
HeldDocuments ==
    {all_processed_data[k] : k \in 1..Len(all_processed_data)}
      \cup (IF Present(processed_structured_data)
            THEN {Val(processed_structured_data)[k] :
                     k \in 1..Len(Val(processed_structured_data))}
            ELSE {})

\* C25: every document in processed_structured_data or all_processed_data has
\* a non-empty full_text_markdown.
C25_BodyTextNonEmpty ==
    \A id \in HeldDocuments : heap[id].full_text_markdown # << >>

\* C26: when store_processed_content has returned or raised, the upload
\* scratch directory does not exist and holds no file, whether the uploads
\* succeeded, returned nothing or raised, and whether or not the directory
\* could be made.
C26_UploadScratchRemoved ==
    [][(PersistStep /\ Truthy(processed_structured_data)) =>
          /\ TempGcsDir \notin dirs'
          /\ \A x \in files' : x.dir # TempGcsDir
          /\ \A k \in 1..Len(PersistGiven) :
                TempFile(heap[PersistGiven[k]].source_url) \notin files']_vars

\* node_store_results has called store_processed_content on two documents,
\* one upload raised and the other returned nothing, and nothing is left of
\* the upload scratch directory
C26_Witness ==
    /\ pc = "should_continue"
    /\ Present(processed_structured_data)
    /\ Len(Val(processed_structured_data)) = 2
    /\ \E i, j \in 1..Len(calls) :
         /\ calls[i].fn = "upload" /\ calls[i].out = "raise"
         /\ calls[j].fn = "upload" /\ calls[j].out = "nothing"
    /\ TempGcsDir \notin dirs
    /\ TempPdfDir \in dirs
    /\ \A x \in files : x.dir # TempGcsDir

\* the step of node_fetch_initial_results
SearchStep == pc = "fetch_initial" /\ pc' = "rank_initial"

\* the candidates the step returns
SearchCandidates ==
    IF Present(initial_search_results') THEN Val(initial_search_results') ELSE << >>

\* the raw hits of the step that carry a link
WithLink == IndicesOf([i \in 1..Len(raw_results') |-> Truthy(raw_results'[i].link)])

\* the raw hits of the step that carry a link which is a url
WellFormed ==
    IndicesOf([i \in 1..Len(raw_results') |->
        Truthy(raw_results'[i].link) /\ HttpUrlValid(Val(raw_results'[i].link))])

\* the raw hits of the step that carry a link which is no url
Malformed ==
    IndicesOf([i \in 1..Len(raw_results') |->
        Truthy(raw_results'[i].link) /\ ~HttpUrlValid(Val(raw_results'[i].link))])

\* the candidates are made of the raw hits at the given indices, in order
CandidatesAreHits(indices) ==
    /\ Len(SearchCandidates) = Len(indices)
    /\ \A k \in 1..Len(indices) :
         /\ SearchCandidates[k].raw_serpapi_data = Some(raw_results'[indices[k]])
         /\ SearchCandidates[k].link = HttpUrl(Val(raw_results'[indices[k]].link))
         /\ Len(SearchCandidates[k].link) > 0

\* C27, as stated: after node_fetch_initial_results the candidates are the raw
\* hits that carry a link, in the order of the search result; hits without a
\* link are dropped and no other candidate is added.
C27_CandidatesAreHitsWithLink ==
    [][SearchStep => \A indices \in {WithLink} : CandidatesAreHits(indices)]_vars

\* C27, amended: after node_fetch_initial_results the candidates are the raw
\* hits that carry a link from which a candidate can be constructed, in the
\* order of the search result; hits without a link and hits whose link is no
\* url are dropped and no other candidate is added.
C27_CandidatesAreHitsWithUrl ==
    [][SearchStep => \A indices \in {WellFormed} : CandidatesAreHits(indices)]_vars

\* a search returned a hit without a link followed by a hit with one, and the
\* second is the only candidate
C27_Witness ==
    /\ pc = "rank_initial"
    /\ Len(raw_results) = 2
    /\ raw_results[1] = HitNoLink
    /\ Truthy(raw_results[2].link) /\ HttpUrlValid(Val(raw_results[2].link))
    /\ Len(Val(initial_search_results)) = 1
    /\ Val(initial_search_results)[1].raw_serpapi_data = Some(raw_results[2])

\* the citation count the claim gives for a cited_by
ExpectedCount(cited_by) ==
    IF cited_by.kind = "int" THEN Some(cited_by.value)
    ELSE IF cited_by.kind = "str" /\ cited_by.value = <<"5", "6">> THEN Some(56)
    ELSE IF cited_by.kind = "str" /\ cited_by.value = <<"1", "0">> THEN Some(10)
    ELSE None

\* the candidates made of the raw hits at the given indices have the citation
\* count of their hit
CountsAreParsed(indices) ==
    /\ Len(SearchCandidates) = Len(indices)
    /\ \A k \in 1..Len(indices) :
         SearchCandidates[k].citation_count =
            ExpectedCount(raw_results'[indices[k]].cited_by)

\* C28, as stated: node_fetch_initial_results yields one candidate per raw hit
\* that has a link, with the citation count of cited_by.value: an integer as
\* it is (0 included), a string of digits as that integer, and None for a
\* missing cited_by, a missing value, a null value or another string.
C28_CountPerHitWithLink ==
    [][SearchStep => \A indices \in {WithLink} : CountsAreParsed(indices)]_vars

\* C28, amended: node_fetch_initial_results yields one candidate per raw hit
\* that has a link from which a candidate can be constructed, with the
\* citation count of cited_by.value: an integer as it is (0 included), a
\* string of digits as that integer, and None for a missing cited_by, a
\* missing value, a null value or another string.
C28_CountPerHitWithUrl ==
    [][SearchStep => \A indices \in {WellFormed} : CountsAreParsed(indices)]_vars

\* a search returned a hit with 0 citations and a hit with the string "56":
\* both are candidates, with the counts 0 and 56
C28_Witness ==
    /\ pc = "rank_initial"
    /\ raw_results = <<HitCited(CitedByInt(0)), HitCited(CitedByStr(<<"5", "6">>))>>
    /\ Len(Val(initial_search_results)) = 2
    /\ Val(initial_search_results)[1].citation_count = Some(0)
    /\ Val(initial_search_results)[2].citation_count = Some(56)

\* C29: a raw hit whose link is no url is skipped: node_fetch_initial_results
\* still returns its list, which holds a candidate for every well-formed hit
\* before and after it, one entry per skipped hit is appended to
\* aggregated_errors, and the run goes on to node_rank_initial_results.
C29_MalformedHitSkipped ==
    [][(pc = "fetch_initial" /\ Present(current_topic) /\ Len(Val(current_topic)) > 0) =>
          /\ pc' = "rank_initial"
          /\ Present(initial_search_results')
          /\ \A good \in {WellFormed}, bad \in {Malformed} :
                /\ \A j \in 1..Len(good) :
                      /\ j <= Len(SearchCandidates)
                      /\ SearchCandidates[j].raw_serpapi_data = Some(raw_results'[good[j]])
                /\ \A i \in 1..Len(bad) : \A k \in 1..Len(SearchCandidates) :
                      SearchCandidates[k].raw_serpapi_data # Some(raw_results'[bad[i]])
                /\ Len(aggregated_errors') >= Len(aggregated_errors) + Len(bad)
          /\ IsPrefix(aggregated_errors, aggregated_errors')]_vars

\* a search returned a hit whose link is no url between two well-formed
\* hits: the hit before it and the hit after it are the candidates
C29_Witness ==
    /\ pc = "rank_initial"
    /\ Len(raw_results) = 3
    /\ raw_results[1] = HitPdf
    /\ raw_results[2] = HitBadLink
    /\ raw_results[3] = HitCited(CitedByInt(1234))
    /\ Len(Val(initial_search_results)) = 2
    /\ Val(initial_search_results)[1].raw_serpapi_data = Some(raw_results[1])
    /\ Val(initial_search_results)[2].raw_serpapi_data = Some(raw_results[3])
    /\ Len(aggregated_errors) = 1

\* a candidate of which only the citation count is looked at
WithCount(count) == [citation_count |-> count]

\* the known citation counts of the comparison, ascending
SampleCounts == <<1, 5, 56, 99, 1000, 1234>>

\* two candidates differ in nothing but the citation count
SameButCount(a, b) ==
    \A f \in DOMAIN a : f \in {"citation_count", "quality_score", "raw_serpapi_data"} \/ a[f] = b[f]

\* C30: the citation component is 0 for a count of 0, 0.1 for an unknown
\* count and more than 0.1 for every known count of 1 or more, does not
\* decrease when the count grows and is 1.0 from 1000 citations on; so of two
\* candidates that differ in the citation count alone, the ranker puts the
\* one with the higher component first.
C30_CitationOrder ==
    /\ citation_score(WithCount(Some(0))) = 0
    /\ citation_score(WithCount(None)) = 1000
    /\ \A k \in 1..Len(SampleCounts) :
          /\ citation_score(WithCount(Some(SampleCounts[k]))) > 1000
          /\ citation_score(WithCount(Some(SampleCounts[k]))) <= 10000
          /\ k > 1 => citation_score(WithCount(Some(SampleCounts[k - 1])))
                         <= citation_score(WithCount(Some(SampleCounts[k])))
    /\ citation_score(WithCount(Some(1000))) = 10000
    /\ (RankDone /\ Len(RankGiven) <= TOP_N_RESULTS_TO_FETCH) =>
          \A i, j \in 1..Len(RankGiven) :
             (/\ SameButCount(RankGiven[i], RankGiven[j])
              /\ citation_score(RankGiven[i]) > citation_score(RankGiven[j])) =>
                \E p, q \in 1..Len(RankReturned) :
                   /\ p < q
                   /\ RankReturned[p].citation_count = RankGiven[i].citation_count
                   /\ RankReturned[q].citation_count = RankGiven[j].citation_count

(***************************************************************************)
(* No retry, one control flow, one scoring per candidate.                  *)
(***************************************************************************)
\* the number of calls of the current iteration made to one of the
\* collaborators fns with the argument arg
CallsWith(fns, arg) ==
    Cardinality({i \in 1..Len(calls) : calls[i].fn \in fns /\ calls[i].arg = arg})

\* the number of entries of a list that satisfy a test
CountIn(xs, Test(_)) == Cardinality({i \in 1..Len(xs) : Test(xs[i])})

\* the lists of the current iteration, empty while they are not set
SelectedNow ==
    IF Present(top_n_selected_for_full_fetch) THEN Val(top_n_selected_for_full_fetch)
    ELSE << >>
FetchedNow == IF Present(fetched_full_content) THEN Val(fetched_full_content) ELSE << >>
DocumentsNow ==
    IF Present(processed_structured_data) THEN Val(processed_structured_data) ELSE << >>

\* C31: no external call is retried: in a topic's iteration the search
\* collaborator is called at most once, the download or extract collaborator
\* at most once per selected candidate, the convert collaborator at most once
\* per fetched item and the upload collaborator at most once per document,
\* whatever the calls did.
C31_NoRetry ==
    /\ CountIn(calls, LAMBDA c : c.fn = "search") <= 1
    /\ CountIn(calls, LAMBDA c : c.fn = "convert") <= Len(FetchedNow)
    /\ \A i \in 1..Len(calls) :
         LET c == calls[i]
         IN  /\ c.fn \in {"download", "extract"} =>
                  CallsWith({"download", "extract"}, c.arg)
                    <= CountIn(SelectedNow, LAMBDA r : r.link = c.arg)
             /\ c.fn = "upload" =>
                  CallsWith({"upload"}, c.arg)
                    <= CountIn(DocumentsNow, LAMBDA d : heap[d].source_url = c.arg)

\* an iteration is over in which a download raised and an upload raised: each
\* of the two calls was made once
C31_Witness ==
    /\ pc = "should_continue"
    /\ \E i, j \in 1..Len(calls) :
         /\ calls[i].fn = "download" /\ calls[i].out = "raise"
         /\ CallsWith({"download", "extract"}, calls[i].arg) = 1
         /\ calls[j].fn = "upload" /\ calls[j].out = "raise"
         /\ CallsWith({"upload"}, calls[j].arg) = 1

\* the error messages of a list of fetched items, in the order of the list
ErrorsOf(items) ==
    LET bad == IndicesOf([k \in 1..Len(items) |-> Present(items[k].error_message)])
    IN  [k \in 1..Len(bad) |-> Val(items[bad[k]].error_message)]

\* C32: while node_fetch_full_content runs its loop, at most one download or
\* extract call is awaited; the calls are made in rank order, the call for a
\* candidate only after the call for the candidate before it is done; the
\* fetched list holds the items of the candidates in rank order, and the
\* entries the loop has appended to aggregated_errors are the error messages
\* of these items, in the same order.
C32_OneCallAtATime ==
    Present(flow) =>
        /\ Cardinality(Val(flow).awaited) <= 1
        /\ \A k \in 1..Len(Val(flow).events) :
             Val(flow).events[k] =
                [kind |-> IF k % 2 = 1 THEN "call" ELSE "done", index |-> (k + 1) \div 2]
        /\ \A k \in 1..Len(Val(flow).fetched_content_list) :
             Val(flow).fetched_content_list[k].original_metadata = SelectedNow[k]
        /\ aggregated_errors =
             SubSeq(aggregated_errors, 1, mark.errors)
               \o ErrorsOf(Val(flow).fetched_content_list)

\* the call for the first of two candidates has failed, its item and its
\* error are appended, and the call for the second one is awaited
C32_Witness ==
    /\ Present(flow)
    /\ Len(SelectedNow) = 2
    /\ Val(flow).awaited = {2}
    /\ Len(Val(flow).fetched_content_list) = 1
    /\ ~Val(flow).fetched_content_list[1].download_successful
    /\ Len(aggregated_errors) = mark.errors + 1

\* C33: a call of rank_initial_results on a list of candidates computes the
\* quality score of each candidate exactly once and assigns it to the
\* candidate, and the sort changes no score: the candidates it returns are
\* candidates of the list, with the score the loop gave them.
C33_ScoredOncePerCall ==
    [][(RankStep /\ Truthy(initial_search_results)) =>
          /\ \A i \in 1..Len(Val(initial_search_results)) :
                /\ Cardinality({k \in 1..Len(scorings') : scorings'[k] = i}) = 1
                /\ Present(Val(initial_search_results')[i].quality_score)
          /\ \A k \in 1..Len(Val(ranked_initial_results')) :
                \E i \in 1..Len(Val(initial_search_results')) :
                   Val(ranked_initial_results')[k] = Val(initial_search_results')[i]]_vars

(***************************************************************************)
(* Conservation, bounds and frames.                                        *)
(***************************************************************************)
\* the entries appended to aggregated_errors since the iteration began
ErrorsNow == SubSeq(aggregated_errors, mark.errors + 1, Len(aggregated_errors))

\* the entries the FETCH stage appends, and the entry the CONVERT stage appends
FetchErrorTags == {"pdf_download_failed", "webpage_fetch_failed", "fetch_unexpected_error"}
ConvertErrorTags == {"processing_failed"}

\* C34: when the CONVERT stage of a topic is over, the number of selected
\* candidates is the number of documents made for the topic plus the number
\* of entries FETCH and CONVERT appended to aggregated_errors; FETCH appended
\* one entry per failed fetch and CONVERT one entry per successful fetch of
\* which no document was made, and none for a failed fetch.
C34_Conservation ==
    (pc = "store_results" /\ Len(trace) > 0) =>
        /\ Len(SelectedNow) =
              Len(DocumentsNow)
                + CountIn(ErrorsNow, LAMBDA e : e \in FetchErrorTags \cup ConvertErrorTags)
        /\ CountIn(ErrorsNow, LAMBDA e : e \in FetchErrorTags)
              = CountIn(FetchedNow, LAMBDA f : ~f.download_successful)
        /\ CountIn(ErrorsNow, LAMBDA e : e \in ConvertErrorTags)
              = CountIn(FetchedNow, LAMBDA f : f.download_successful) - Len(DocumentsNow)

\* of two selected candidates the fetch of one failed, and the fetch of the
\* other succeeded but its conversion failed: two entries and no document
C34_Witness ==
    /\ pc = "store_results"
    /\ Len(SelectedNow) = 2
    /\ Len(DocumentsNow) = 0
    /\ CountIn(ErrorsNow, LAMBDA e : e \in FetchErrorTags) = 1
    /\ CountIn(ErrorsNow, LAMBDA e : e \in ConvertErrorTags) = 1

\* the documents of all_processed_data that carry a storage link
LinkedDocuments ==
    {k \in 1..Len(all_processed_data) :
        Present(heap[all_processed_data[k]].gcs_storage_link)}

\* C35: after the PERSIST stage of a topic and at the end of the run,
\* all_gcs_links is no longer than all_processed_data, and the documents of
\* all_processed_data that carry a storage link are as many as the entries of
\* all_gcs_links: the links the persister sets on the topic's documents are
\* set on the documents of the accumulator.
C35_LinksMatchDocuments ==
    pc \in {"should_continue", "prepare_next_topic", "END"} =>
        /\ Len(all_gcs_links) <= Len(all_processed_data)
        /\ Cardinality(LinkedDocuments) = Len(all_gcs_links)

\* a run has ended with three documents of which two carry a link, one of
\* them left by an earlier topic
C35_Witness ==
    /\ pc = "END"
    /\ Len(all_processed_data) = 3
    /\ Len(all_gcs_links) = 2
    /\ Cardinality(LinkedDocuments) = 2
    /\ Len(DocumentsNow) = 2

\* the index is in range and current_topic is the topic at the index
TopicIndexInRange ==
    /\ -1 <= current_topic_index
    /\ current_topic_index <= Len(research_topics) - 1
    /\ current_topic_index >= 0 =>
         current_topic = Some(research_topics[current_topic_index + 1])

\* C36: in every state -1 <= current_topic_index <= len(research_topics) - 1,
\* and current_topic is research_topics[current_topic_index] whenever the
\* index is not negative; no step modifies research_topics or decreases the
\* index, and the only step that changes the index is node_prepare_next_topic,
\* which adds one to it.
C36_TopicIndex ==
    /\ []TopicIndexInRange
    /\ [][/\ research_topics' = research_topics
          /\ current_topic_index' >= current_topic_index
          /\ current_topic_index' # current_topic_index =>
               /\ pc = "prepare_next_topic"
               /\ current_topic_index' = current_topic_index + 1]_vars

\* the second of two topics is at its SEARCH stage
C36_Witness ==
    /\ Len(research_topics) = 2
    /\ current_topic_index = 1
    /\ current_topic = Some(research_topics[2])
    /\ pc = "fetch_initial"
    /\ Len(trace) > 0

\* the topic's SEARCH stage has ended with an empty candidate list and one of
\* the four stages after it is about to run
AfterEmptySearch ==
    /\ pc \in {"rank_initial", "fetch_full", "process_full", "store_results"}
    /\ Present(initial_search_results)
    /\ Len(Val(initial_search_results)) = 0

\* C37: after a SEARCH stage that ended with an empty candidate list, the
\* RANK, FETCH, CONVERT and PERSIST stages of the topic call no collaborator,
\* create no scratch directory and no file, return empty per-topic lists and
\* leave all_processed_data, all_gcs_links and aggregated_errors as they are.
C37_EmptySearchIsNoOp ==
    [][AfterEmptySearch =>
          /\ calls' = calls
          /\ dirs' = dirs
          /\ files' = files
          /\ heap' = heap
          /\ all_processed_data' = all_processed_data
          /\ all_gcs_links' = all_gcs_links
          /\ aggregated_errors' = aggregated_errors
          /\ pc = "rank_initial" =>
               /\ ranked_initial_results' = Some(<< >>)
               /\ top_n_selected_for_full_fetch' = Some(<< >>)
          /\ pc = "fetch_full" => fetched_full_content' = Some(<< >>)
          /\ pc = "process_full" => processed_structured_data' = Some(<< >>)
          /\ pc = "store_results" => UNCHANGED transients]_vars

\* the second topic's search returned an empty list after the first topic's
\* search had raised, and the four stages after it have run: the one entry of
\* aggregated_errors is the first topic's
C37_Witness ==
    /\ pc = "should_continue"
    /\ current_topic_index = 1
    /\ Len(calls) = 1 /\ calls[1].fn = "search" /\ calls[1].out = "returned"
    /\ initial_search_results = Some(<< >>)
    /\ processed_structured_data = Some(<< >>)
    /\ aggregated_errors = <<"serpapi_call_error">>
    /\ dirs = {}

C39_KindIsPdfOrHtml ==
    \A k \in 1..Len(FetchedNow) : FetchedNow[k].content_type \in {"pdf", "html"}

\* the FETCH stage has returned two items, one for a download that raised and
\* one for an extraction that returned nothing
C39_Witness ==
    /\ pc = "process_full"
    /\ Len(FetchedNow) = 2
    /\ FetchedNow[1].error_message = Some("fetch_unexpected_error")
    /\ FetchedNow[1].content_type = "pdf"
    /\ FetchedNow[2].error_message = Some("webpage_fetch_failed")
    /\ FetchedNow[2].content_type = "html"

\* what makes a call of search_academic_papers_serpapi fail
SearchFailures == {"no_api_key", "import_error", "provider_error", "exception"}

\* C40: search_academic_papers_serpapi never raises: without an API key,
\* without the client library, on an error of the provider and on any
\* exception it returns an empty list, so that the SEARCH stage of the
\* pipeline that calls it yields no candidate and appends nothing to
\* aggregated_errors.
C40_ShippedSearchNeverRaises ==
    [][(pc = "fetch_initial" /\ world = "shipped" /\ Truthy(current_topic)) =>
          /\ Len(NewCalls) = 1
          /\ NewCalls[1].fn = "search"
          /\ NewCalls[1].out # "raise"
          /\ pc' = "rank_initial"
          /\ NewCalls[1].out \in SearchFailures =>
               /\ raw_results' = << >>
               /\ initial_search_results' = Some(<< >>)
               /\ aggregated_errors' = aggregated_errors]_vars

\* a run of two topics has ended: the client raised an exception during the
\* second topic's search, and aggregated_errors has no entry
C40_Witness ==
    /\ world = "shipped"
    /\ pc = "END"
    /\ current_topic_index = 1
    /\ calls = <<Call("search", TopicB, "exception")>>
    /\ initial_search_results = Some(<< >>)
    /\ aggregated_errors = << >>
====
